---- MODULE Spec2Model ----
(***************************************************************************)
(* One invocation of the scrape-webpage tool of puppeteer-vision-mcp:      *)
(* the tool handler (server/tools.ts), visitWebPage (scrapers/             *)
(* webpage-scraper.ts), the interaction loop handlePageInteractions and    *)
(* executeAction (ai/page-interactions.ts), analyzePageWithAI              *)
(* (ai/vision-analyzer.ts) and processHtmlContent                          *)
(* (scrapers/content-processor.ts).                                        *)
(*                                                                         *)
(* Every `await` of the code is one step.  The browser, the page, the      *)
(* file system and the vision model are the environment: each call to them *)
(* either returns or rejects, chosen nondeterministically.  A rejected     *)
(* call raises an exception that travels to the nearest enclosing catch,   *)
(* exactly as in the code.                                                 *)
(*                                                                         *)
(* Optional values are sequences of length at most one: <<>> is an absent  *)
(* (undefined) field, <<v>> a field holding v.  The Markdown text is       *)
(* represented by its length.                                              *)
(***************************************************************************)
EXTENDS Integers, Sequences, FiniteSets, TLC

\* ------------------------------------------------------------------ bounds
\* Largest maxInteractionAttempts a client sends (one beyond the schema).
MaxRequested == 11
\* Largest scrollAmount / waitTime the vision model proposes.
MaxAmount == 1
\* How far beyond maxLength the rendered Markdown may run.
MaxOverrun == 1

\* ------------------------------------------------------- program constants
\* z.number().int().min(0)
minAttempts == 0
\* z.number().int().max(10)
maxAttemptsLimit == 10
\* .optional().default(3) and the default parameter of visitWebPage
defaultAttempts == 3
\* const maxLength = 100000
maxLength == 100000

Absent == <<>>
Some(v) == <<v>>
IsPresent(o) == o /= <<>>
Get(o) == o[1]

\* JavaScript truthiness of an optional string / number field.
TruthyStr(o) == IsPresent(o) /\ Get(o) /= ""
TruthyNum(o) == IsPresent(o) /\ Get(o) /= 0

\* ------------------------------------------------------------ tool request
Urls == {"https://example.com/", "not a url"}
OptBool == {Absent, Some(TRUE), Some(FALSE)}
OptAttempts == {Absent} \cup {Some(n) : n \in (0 - 1)..MaxRequested}

Requests ==
  [url : Urls, autoInteract : OptBool,
   maxInteractionAttempts : OptAttempts, waitForNetworkIdle : OptBool]

NoRequest ==
  [url |-> "", autoInteract |-> Absent,
   maxInteractionAttempts |-> Absent, waitForNetworkIdle |-> Absent]

\* z.string().url()
ValidUrl(u) == u = "https://example.com/"

ValidAttemptsMut(o) ==
  IsPresent(o) => Get(o) \in minAttempts..(maxAttemptsLimit + 1)

\* z.number().int().min(0).max(10).optional()
ValidAttempts(o) ==
  IsPresent(o) => Get(o) \in minAttempts..maxAttemptsLimit

\* The input schema of the tool: a request that fails it never reaches the
\* handler.
ValidRequest(r) ==
  /\ ValidUrl(r.url)
  /\ ValidAttempts(r.maxInteractionAttempts)

\* .optional().default(...) of the schema, then the parameter defaults of
\* visitWebPage (the same values).
WithDefault(o, d) == IF IsPresent(o) THEN Get(o) ELSE d

\* ------------------------------------------------------------- exceptions
\* A thrown value: an Error object carrying a message, or some other value
\* (whose .message is undefined).
ThrownKinds == {"Error", "NonError"}
NoExc == [kind |-> "none", message |-> ""]
Thrown(k, m) == [kind |-> k, message |-> IF k = "Error" THEN m ELSE "undefined"]

\* ------------------------------------------------------------- AI actions
OptStr == {Absent, Some(""), Some("Accept")}
OptNum == {Absent} \cup {Some(n) : n \in 0..MaxAmount}

AIAction(a, tt, ts, it, sa, wt, isObj) ==
  [action |-> a, targetText |-> tt, targetSelector |-> ts, inputText |-> it,
   scrollAmount |-> sa, waitTime |-> wt, reason |-> Absent, isObject |-> isObj]

\* The JSON literal null: not an object, so reading .action from it throws.
JsonNull == AIAction(Absent, Absent, Absent, Absent, Absent, Absent, FALSE)

\* The loop's `action` before the classifier has answered.
NoAction == JsonNull

\* JSON values the vision model can answer with, once parsed: objects with
\* the fields the prompt asks for, an object with an unknown or a missing
\* action, and the JSON literal null.
ParsedValues ==
  {AIAction(Some("click"), tt, ts, Absent, Absent, Absent, TRUE) :
      tt \in OptStr, ts \in OptStr}
  \cup {AIAction(Some("type"), Absent, ts, it, Absent, Absent, TRUE) :
      ts \in OptStr, it \in OptStr}
  \cup {AIAction(Some("scroll"), Absent, Absent, Absent, sa, Absent, TRUE) :
      sa \in OptNum}
  \cup {AIAction(Some("wait"), Absent, Absent, Absent, Absent, wt, TRUE) :
      wt \in OptNum}
  \cup {AIAction(Some("none"), Absent, Absent, Absent, Absent, Absent, TRUE),
        AIAction(Some("hover"), Absent, Absent, Absent, Absent, Absent, TRUE),
        AIAction(Absent, Absent, Absent, Absent, Absent, Absent, TRUE),
        JsonNull}

\* What the chat-completion request yields: it rejects, or it resolves with
\* empty content, with text that is not JSON, or with JSON.
ModelReplies ==
  {[kind |-> k, value |-> NoAction] : k \in {"rejects", "empty", "notJson"}}
  \cup {[kind |-> "json", value |-> v] : v \in ParsedValues}

\* { action: 'none', reason: ... }
FallbackNone(reason) ==
  [AIAction(Some("none"), Absent, Absent, Absent, Absent, Absent, TRUE)
     EXCEPT !.reason = Some(reason)]

AnalyzerErrorCaughtMut == FALSE

\* try { ... } catch (e) { return { action: 'none', reason: 'Error parsing AI
\* response' } } around the request and JSON.parse.
AnalyzerErrorCaught == TRUE

\* The replies on which the request or JSON.parse throws inside the try.
AnalyzerThrowsOn == {"rejects", "notJson"}

\* What analyzePageWithAI returns: the fallback of the catch block, the
\* parsed fallback text of line 66 for empty content, or whatever JSON.parse
\* gives, unvalidated.
analyzePageWithAI(reply) ==
  CASE reply.kind = "rejects" -> FallbackNone("Error parsing AI response")
    [] reply.kind = "empty"   -> FallbackNone("Failed to get response")
    [] reply.kind = "notJson" -> FallbackNone("Error parsing AI response")
    [] OTHER                  -> reply.value

IsNoneMut(a) == FALSE

\* action.action === 'none'
IsNone(a) == a.action = Some("none")

\* -------------------------------------------------------------- the page
\* How the page answers the calls of one executeAction: whether
\* waitForSelector resolves within its timeout, and whether the operation
\* itself (click, type, evaluate) resolves.
\* and how the cross-frame text click ends.  That click catches every
\* per-frame and per-element error (its steps are the specification
\* SpecClick below), so it always returns.
\* frame: what happened inside the frames of a text click (all calls
\* resolved, a frame query rejected, an element click rejected).
PageBehaviours ==
  [wait : BOOLEAN, act : BOOLEAN, byText : {"returns"},
   frame : {"ok", "frameQueryFailed", "elementClickFailed"}]

\* await clickElementsByText(page, action.targetText), as executeAction sees
\* it.
clickElementsByText(pg) == pg.byText

TextClickResultMut(ended) == IF ended = "returns" THEN "false" ELSE "throws"

\* await clickElementsByText(...); return true;
TextClickResult(ended) == IF ended = "returns" THEN "true" ELSE "throws"

\* waitForSelector(selector, {timeout}) of the click and type branches.
selectorTimeout == 5000

SelectorClickResultMut(waited, clicked) == IF waited THEN "true" ELSE "false"

\* try { await page.waitForSelector(...); await page.click(...); return true }
\* catch (error) { return false }
SelectorClickResult(waited, clicked) ==
  IF waited /\ clicked THEN "true" ELSE "false"

TypeResultMut(waited, typed) == "true"

\* try { await page.waitForSelector(...); await page.type(...); return true }
\* catch (error) { return false }
TypeResult(waited, typed) == IF waited /\ typed THEN "true" ELSE "false"

DefaultResultMut == "true"

\* default: console.log("No action taken"); return false;
DefaultResult == "false"

executeAction(action, pg) ==
  CASE action.action = Some("click") ->
         IF TruthyStr(action.targetText)
           THEN TextClickResult(clickElementsByText(pg))
           ELSE IF TruthyStr(action.targetSelector)
             THEN SelectorClickResult(pg.wait, pg.act)
             ELSE "false"
    [] action.action = Some("type") ->
         IF TruthyStr(action.targetSelector) /\ TruthyStr(action.inputText)
           THEN TypeResult(pg.wait, pg.act)
           ELSE "false"
    [] action.action = Some("scroll") ->
         IF TruthyNum(action.scrollAmount)
           THEN IF pg.act THEN "true" ELSE "throws"
           ELSE "false"
    [] action.action = Some("wait") ->
         IF TruthyNum(action.waitTime) THEN "true" ELSE "false"
    [] OTHER -> DefaultResult

\* The call of the page that failed while executeAction ran on it, if any.
PageError(action, pg) ==
  CASE action.action = Some("click") /\ TruthyStr(action.targetText) ->
         IF pg.frame = "ok" THEN "none" ELSE pg.frame
    [] /\ action.action = Some("click")
       /\ ~TruthyStr(action.targetText)
       /\ TruthyStr(action.targetSelector) ->
         IF ~pg.wait THEN "selectorTimeout"
         ELSE IF ~pg.act THEN "clickFailed" ELSE "none"
    [] /\ action.action = Some("type")
       /\ TruthyStr(action.targetSelector)
       /\ TruthyStr(action.inputText) ->
         IF ~pg.wait THEN "selectorTimeout"
         ELSE IF ~pg.act THEN "typeFailed" ELSE "none"
    [] action.action = Some("scroll") /\ TruthyNum(action.scrollAmount) ->
         IF ~pg.act THEN "evaluateFailed" ELSE "none"
    [] OTHER -> "none"

TypeOpsMut(waited) == <<"waitForSelector", "type">>

\* The page calls of the type branch: page.type is reached only when
\* waitForSelector resolved.
TypeOps(waited) ==
  IF waited THEN <<"waitForSelector", "type">> ELSE <<"waitForSelector">>

\* The calls executeAction makes on the page, in order.
PageOps(action, pg) ==
  CASE action.action = Some("click") /\ TruthyStr(action.targetText) ->
         <<"clickElementsByText">>
    [] /\ action.action = Some("click")
       /\ ~TruthyStr(action.targetText)
       /\ TruthyStr(action.targetSelector) ->
         IF pg.wait THEN <<"waitForSelector", "click">>
                    ELSE <<"waitForSelector">>
    [] /\ action.action = Some("type")
       /\ TruthyStr(action.targetSelector)
       /\ TruthyStr(action.inputText) -> TypeOps(pg.wait)
    [] action.action = Some("scroll") /\ TruthyNum(action.scrollAmount) ->
         <<"evaluate">>
    [] OTHER -> <<>>

FoundAfterMut(found, success) == success = "true"

\* if (actionSuccess) { interactionFound = true; ... }
FoundAfter(found, success) == found \/ success = "true"

AfterExecuteMut(success) == "settle"

\* if (actionSuccess) { ...; await new Promise(r => setTimeout(r, 2000)) }
\* else { log }
AfterExecute(success) == IF success = "true" THEN "settle" ELSE "loopTest"

\* The settle delay, in milliseconds.
settleDelay == 2000

NextAttemptMut(att) == att + 2

\* attempts += 1
NextAttempt(att) == att + 1

LoopCondMut(att, max) == att <= max

\* while (attempts < maxAttempts)
LoopCond(att, max) == att < max

\* ----------------------------------------------------------- the results
NoResult == [data |-> Absent, error |-> Absent, returned |-> FALSE]

DataResult(markdown) ==
  [data |-> Some(markdown), error |-> Absent, returned |-> TRUE]

ErrorResultMut(e) ==
  [data |-> Some(0),
   error |-> Some([message |-> IF e.kind = "Error" THEN e.message
                               ELSE "An unknown error occurred"]),
   returned |-> TRUE]

\* The two returns of the catch block of visitWebPage.
ErrorResult(e) ==
  [data |-> Absent,
   error |-> Some([message |-> IF e.kind = "Error" THEN e.message
                               ELSE "An unknown error occurred"]),
   returned |-> TRUE]

NoResponse ==
  [text |-> 0, message |-> "", success |-> FALSE, contentSize |-> Absent,
   isError |-> FALSE, sent |-> FALSE]

createSuccessResponseMut(text, message) ==
  [text |-> text, message |-> message, success |-> TRUE,
   contentSize |-> Absent, isError |-> FALSE, sent |-> TRUE]

createSuccessResponse(text, message) ==
  [text |-> text, message |-> message, success |-> TRUE,
   contentSize |-> Some(text), isError |-> FALSE, sent |-> TRUE]

createErrorResponse(message) ==
  [text |-> 0, message |-> message, success |-> FALSE,
   contentSize |-> Absent, isError |-> TRUE, sent |-> TRUE]

ResultHasErrorMut(r) == FALSE

\* if (result.error)
ResultHasError(r) == IsPresent(r.error)

\* result.data || ""
DataOrEmpty(r) == IF IsPresent(r.data) THEN Get(r.data) ELSE 0

\* s.substring(a, b) for 0 <= a <= b, on texts given by their length: the
\* length of the result.  With a = 0 the result is the prefix of s of that
\* length.
substring(len, a, b) ==
  (IF b < len THEN b ELSE len) - (IF a < len THEN a ELSE len)

TooLongMut(len) == len >= maxLength

\* if (markdownContent.length > maxLength)
TooLong(len) == len > maxLength

\* The body of the tool handler after visitWebPage has resolved.
ToolResponse(r) ==
  IF ResultHasError(r)
    THEN createErrorResponse(Get(r.error).message)
    ELSE LET full == DataOrEmpty(r)
             markdownContent ==
               IF TooLong(full) THEN substring(full, 0, maxLength) ELSE full
             message ==
               IF TooLong(full)
                 THEN "Content truncated due to size (total size: "
                        \o ToString(markdownContent) \o " characters)"
                 ELSE "Scraping successful"
         IN  createSuccessResponse(markdownContent, message)

\* ------------------------------------------------------- content pipeline
\* What page.evaluate hands to processHtmlContent: whether Readability finds
\* an article in it, and the length of the Markdown rendered from it.
MarkdownLengths == {0, 1} \cup (maxLength - 1)..(maxLength + MaxOverrun)
Htmls == [article : BOOLEAN, length : MarkdownLengths]
NoHtml == [article |-> FALSE, length |-> 0]

processHtmlContentMut(html) ==
  IF ~html.article
    THEN [threw |-> FALSE, exc |-> NoExc, markdown |-> 0]
    ELSE [threw |-> FALSE, exc |-> NoExc, markdown |-> html.length]

processHtmlContent(html) ==
  IF ~html.article
    THEN [threw |-> TRUE,
          exc |-> Thrown("Error", "Failed to parse the article content."),
          markdown |-> 0]
    ELSE [threw |-> FALSE, exc |-> NoExc, markdown |-> html.length]

\* ------------------------------------------------------------------ state
VARIABLES
  pc,                \* position of the scrape in the code
  request,           \* the arguments of the tool call
  browser,           \* "none", "open" or "closed"
  attempts,          \* handlePageInteractions: attempts
  interactionFound,  \* handlePageInteractions: interactionFound
  action,            \* handlePageInteractions: action of this iteration
  html,              \* visitWebPage: htmlContent
  markdown,          \* visitWebPage: markdown
  exc,               \* the exception in flight
  result,            \* the ScrapeResult visitWebPage resolved with
  response,          \* the response of the tool handler
  screenshots,       \* calls of page.screenshot so far
  classifications,   \* calls of analyzePageWithAI so far
  executions,        \* calls of executeAction so far
  extractions,       \* calls of page.evaluate for the content so far
  conversions,       \* calls of processHtmlContent so far
  loopEnd,           \* how handlePageInteractions ended
  noneAt,            \* the classifier call that answered 'none' (0: no such)
  failedAt,          \* where the first exception that left its function rose
  replyKind,         \* what the model request of this iteration yielded
  actionSuccess,     \* handlePageInteractions: actionSuccess of this iteration
  pageError,         \* what the page refused during this executeAction
  pageOps,           \* the calls this executeAction made on the page
  executedVariant,   \* the action.action this executeAction switched on
  \* the cross-frame text click, studied on its own (SpecClick)
  cpc,               \* position of executeAction in its click branch
  caction,           \* the click action being executed
  frames,            \* per frame: position and findings of its async body
  agg,               \* the aggregate clickElementsByText logs
  execResult,        \* what executeAction returned for caction
  settleTimer,       \* the 2000 ms timer of the settle delay: "off", "running"
  \* the Turndown rules, studied on their own (SpecRender)
  rin,               \* the node handed to the renderer
  rout,              \* the Markdown rendered for it (a sequence of characters)
  \* the marking pass of processHtmlContent, studied on its own (SpecDom)
  dom,               \* the document: parent and tag of every element
  articleContent,    \* the elements carrying the class 'article-content'
  readableScore,     \* the elements carrying data-readable-content-score
  dpc,               \* where the marking pass is
  di,                \* the next element the running forEach looks at
  classList,         \* per element: its class attribute, token by token
  firstPass,         \* the marks the document had when the pass first ended
  \* two scrapes at once in one server process (SpecFiles)
  now,               \* the clock of the process, in milliseconds
  spc,               \* where each scrape is
  sbrowser,          \* the browser each scrape launched
  spage,             \* the page each scrape opened
  sshots,            \* the screenshots each scrape has taken
  sfilename,         \* the timestamp in the file name each scrape computed
  launched,          \* the browsers launched so far
  disk,              \* the files of the working directory, by timestamp
  \* one frame of the text click, element by element (SpecRequery)
  fdoc,              \* the a and button elements of the frame, in document order
  ftext,             \* per element: its text contains the search text
  elementIndexes,    \* the indexes gathered by $$eval
  allElements,       \* the handles returned by $$
  scanned,           \* the elements whose text matched when $$eval ran
  clickedElements,   \* the elements click() was called on
  epc,               \* where the body of the frame is
  changes,           \* changes of the frame's DOM so far
  \* sanitizeHtml as processHtmlContent configures it (SpecSanitize)
  sanIn,             \* the element handed to sanitizeHtml
  sanOut,            \* what is left of it
  \* the HTTP transport: sessions, requests in flight, shutdown (SpecHttp)
  httpTransports,    \* setupHTTPTransport: transports, session id -> transport
  transportState,    \* per transport: how far the SDK has taken it
  transportsCreated, \* the transports constructed so far
  httpRequests,      \* per client: its request on /mcp and where its handler is
  shutdown,          \* the SIGINT handler: where it is in its loop
  removals,          \* per session id: entries deleted from the map so far
  \* the SSE transport (SpecSse)
  sseTransports,     \* setupSSETransport: transports, the own keys of the object
  sseOpen,           \* the session ids whose SSE connection is open
  sseOpened,         \* the SSE connections opened so far
  lastPost           \* the last POST /messages: its sessionId and its outcome

scrapeVars ==
  <<pc, request, browser, attempts, interactionFound, action, html, markdown,
    exc, result, response, screenshots, classifications, executions,
    extractions, conversions, loopEnd, noneAt, failedAt, replyKind,
    actionSuccess, pageError, pageOps, executedVariant>>

\* What belongs to one iteration of the loop.
attemptVars ==
  <<replyKind, actionSuccess, pageError, pageOps, executedVariant>>

clickVars == <<cpc, caction, frames, agg, execResult, settleTimer>>

\* The variables of the studies of single functions; the scrape leaves them
\* alone.
renderVars == <<rin, rout>>

domVars ==
  <<dom, articleContent, readableScore, dpc, di, classList, firstPass>>

fileVars == <<now, spc, sbrowser, spage, sshots, sfilename, launched, disk>>

requeryVars ==
  <<fdoc, ftext, elementIndexes, allElements, scanned, clickedElements, epc,
    changes>>

sanitizeVars == <<sanIn, sanOut>>

\* The studies of the sanitizer and of the transports.
httpVars ==
  <<httpTransports, transportState, transportsCreated, httpRequests, shutdown,
    removals>>

sseVars == <<sseTransports, sseOpen, sseOpened, lastPost>>

laterVars == <<sanitizeVars, httpVars, sseVars>>

auxVars == <<clickVars, renderVars, domVars, fileVars, requeryVars, laterVars>>

\* What the actions of each separate study leave alone.
besidesLoop ==
  <<scrapeVars, renderVars, domVars, fileVars, requeryVars, laterVars>>
besidesClick == <<besidesLoop, settleTimer>>
besidesRender ==
  <<scrapeVars, clickVars, domVars, fileVars, requeryVars, laterVars>>
besidesDom ==
  <<scrapeVars, clickVars, renderVars, fileVars, requeryVars, laterVars>>
besidesFiles ==
  <<scrapeVars, clickVars, renderVars, domVars, requeryVars, laterVars>>
besidesRequery ==
  <<scrapeVars, clickVars, renderVars, domVars, fileVars, laterVars>>
besidesSanitize ==
  <<scrapeVars, clickVars, renderVars, domVars, fileVars, requeryVars,
    httpVars, sseVars>>
besidesHttp ==
  <<scrapeVars, clickVars, renderVars, domVars, fileVars, requeryVars,
    sanitizeVars, sseVars>>
besidesSse ==
  <<scrapeVars, clickVars, renderVars, domVars, fileVars, requeryVars,
    sanitizeVars, httpVars>>

vars == <<scrapeVars, auxVars>>

loopVars == <<attempts, interactionFound, action>>
counters == <<screenshots, classifications, executions, extractions, conversions>>
outcome == <<result, response>>

\* The options as the handler and visitWebPage see them.
autoInteract == WithDefault(request.autoInteract, TRUE)
maxInteractionAttempts ==
  WithDefault(request.maxInteractionAttempts, defaultAttempts)
waitForNetworkIdle == WithDefault(request.waitForNetworkIdle, TRUE)
\* waitUntil: waitForNetworkIdle ? 'networkidle2' : 'domcontentloaded'
waitUntil == IF waitForNetworkIdle THEN "networkidle2" ELSE "domcontentloaded"

\* Largest number of frames page.frames() returns.
MaxFrames == 2
\* Largest number of a and button elements of a frame that match the text.
MaxMatches == 2

NoFrame ==
  [pc |-> "absent", n |-> 0, e |-> 0, attempted |-> 0, ok |-> 0,
   rejected |-> 0, threw |-> FALSE, found |-> FALSE, count |-> 0, error |-> FALSE]

NoAgg == [successfulFrames |-> 0, totalClicks |-> 0]

ClickIdle ==
  /\ cpc = "idle"
  /\ caction = NoAction
  /\ frames = [f \in 1..MaxFrames |-> NoFrame]
  /\ agg = NoAgg
  /\ execResult = "pending"
  /\ settleTimer = "off"

\* ------------------------------------------------------------------ texts
\* A text is a sequence of characters (strings of length one).
RECURSIVE Flatten(_)
\* The concatenation of a sequence of texts.
Flatten(ts) == IF ts = <<>> THEN <<>> ELSE Head(ts) \o Flatten(Tail(ts))

\* The characters String.prototype.trim removes.
IsSpace(c) == c \in {" ", "\n"}

RECURSIVE DropWhile(_, _)
DropWhile(t, cs) ==
  IF t /= <<>> /\ Head(t) \in cs THEN DropWhile(Tail(t), cs) ELSE t

RECURSIVE DropEndWhile(_, _)
DropEndWhile(t, cs) ==
  IF t /= <<>> /\ t[Len(t)] \in cs
    THEN DropEndWhile(SubSeq(t, 1, Len(t) - 1), cs) ELSE t

\* s.trimEnd() and s.trim()
trimEnd(t) == DropEndWhile(t, {" ", "\n"})
trim(t) == DropWhile(trimEnd(t), {" ", "\n"})

\* s.replace(/^\n+|\n+$/g, '')
StripNewlines(t) == DropWhile(DropEndWhile(t, {"\n"}), {"\n"})

RECURSIVE SqueezeNewlines(_)
\* s.replace(/\n\n+/g, '\n') and s.replace(/\n+/g, '\n'): every run of
\* newlines becomes one newline.
SqueezeNewlines(t) ==
  IF Len(t) < 2 THEN t
  ELSE IF t[1] = "\n" /\ t[2] = "\n" THEN SqueezeNewlines(Tail(t))
  ELSE <<t[1]>> \o SqueezeNewlines(Tail(t))

RECURSIVE EscapePipes(_)
\* s.replace(/\|/g, '\\|')
EscapePipes(t) ==
  IF t = <<>> THEN <<>>
  ELSE (IF Head(t) = "|" THEN <<"\\", "|">> ELSE <<Head(t)>>)
         \o EscapePipes(Tail(t))

NoNode ==
  [kind |-> "none", text |-> <<>>, codeLanguage |-> Absent,
   dataLanguage |-> Absent, ps |-> <<>>, header |-> <<>>, rows |-> <<>>]

RenderIdle ==
  /\ rin = NoNode
  /\ rout = <<>>

\* ----------------------------------------------------------------- document
MaxNodes == 5

\* Element 1 is the root (html); 0 stands for null.
NoDocument == [n |-> 0, parent |-> <<>>, tag |-> <<>>]

NoClasses == [i \in 1..MaxNodes |-> <<>>]

NoPass == [taken |-> FALSE, classes |-> NoClasses, scores |-> {}]

DomIdle ==
  /\ classList = NoClasses
  /\ firstPass = NoPass
  /\ dom = NoDocument
  /\ articleContent = {}
  /\ readableScore = {}
  /\ dpc = "idle"
  /\ di = 0

\* ------------------------------------------------------------ working files
Scrapes == {1, 2}
MaxClock == 1
MaxShots == 2

NoFile == [owner |-> 0, shot |-> 0]

FilesIdle ==
  /\ now = 0
  /\ spc = [s \in Scrapes |-> "idle"]
  /\ sbrowser = [s \in Scrapes |-> 0]
  /\ spage = [s \in Scrapes |-> 0]
  /\ sshots = [s \in Scrapes |-> 0]
  /\ sfilename = [s \in Scrapes |-> 0]
  /\ launched = 0
  /\ disk = [t \in 0..MaxClock |-> NoFile]

\* ------------------------------------------------- one frame, its elements
MaxElements == 3
MaxChanges == 1

Elements == 1..MaxElements

RequeryIdle ==
  /\ fdoc = <<>>
  /\ ftext = [el \in Elements |-> FALSE]
  /\ elementIndexes = {}
  /\ allElements = <<>>
  /\ scanned = {}
  /\ clickedElements = {}
  /\ epc = "idle"
  /\ changes = 0

\* ------------------------------------------------------------ the sanitizer
\* An element before sanitizing: its tag, the names of its attributes and
\* the scheme of its href (if it has one); after: whether the tag is kept
\* and the attributes left on it.
NoElement == [done |-> FALSE, kept |-> FALSE, tag |-> "", attrs |-> {}]

SanitizeIdle ==
  /\ sanIn = [tag |-> "", attrs |-> {}, scheme |-> ""]
  /\ sanOut = NoElement

\* ------------------------------------------------------- the HTTP transport
\* Largest number of StreamableHTTPServerTransport objects constructed.
MaxSessions == 2

\* randomUUID() never repeats: the n-th transport constructed gets session
\* id n when it is initialized.
SessionIds == 1..MaxSessions

\* The clients with a request on /mcp in flight at the same time.
Clients == {"c1", "c2"}

NoHttpRequest ==
  [pc |-> "idle", method |-> "", header |-> Absent, transport |-> 0,
   status |-> 0]

NoShutdown == [phase |-> "running", visited |-> {}]

HttpIdle ==
  /\ httpTransports = [s \in SessionIds |-> 0]
  /\ transportState = [t \in SessionIds |-> "none"]
  /\ transportsCreated = 0
  /\ httpRequests = [c \in Clients |-> NoHttpRequest]
  /\ shutdown = NoShutdown
  /\ removals = [s \in SessionIds |-> 0]

\* -------------------------------------------------------- the SSE transport
\* Largest number of SSE connections opened.
MaxConnections == 3

\* The names every object inherits from Object.prototype that a client can
\* send as sessionId.
InheritedKeys == {"constructor", "__proto__"}

NoPost == [sessionId |-> [name |-> "", n |-> 0], outcome |-> "none"]

SseIdle ==
  /\ sseTransports = {}
  /\ sseOpen = {}
  /\ sseOpened = 0
  /\ lastPost = NoPost

LaterIdle == SanitizeIdle /\ HttpIdle /\ SseIdle

AuxIdle ==
  /\ ClickIdle /\ RenderIdle /\ DomIdle /\ FilesIdle /\ RequeryIdle
  /\ LaterIdle

ScrapeIdle ==
  /\ pc = "idle"
  /\ request = NoRequest
  /\ browser = "none"
  /\ attempts = 0
  /\ interactionFound = FALSE
  /\ action = NoAction
  /\ html = NoHtml
  /\ markdown = 0
  /\ exc = NoExc
  /\ result = NoResult
  /\ response = NoResponse
  /\ screenshots = 0
  /\ classifications = 0
  /\ executions = 0
  /\ extractions = 0
  /\ conversions = 0
  /\ loopEnd = "notRun"
  /\ noneAt = 0
  /\ failedAt = "none"
  /\ replyKind = "none"
  /\ actionSuccess = "pending"
  /\ pageError = "none"
  /\ pageOps = <<>>
  /\ executedVariant = Absent

Init == ScrapeIdle /\ AuxIdle

\* An awaited call rejects with a value of kind k: control goes to `handler`.
Raise(origin, e, handler) ==
  /\ exc' = e
  /\ failedAt' = IF failedAt = "none" THEN origin ELSE failedAt
  /\ pc' = handler

\* ------------------------------------------------------------ tool handler
\* A client calls scrape-webpage; the schema admits or refuses the request.
ToolCall ==
  /\ pc = "idle"
  /\ \E r \in Requests :
       /\ request' = r
       /\ pc' = IF ValidRequest(r) THEN "launch" ELSE "refused"
  /\ UNCHANGED <<auxVars, attemptVars, noneAt, browser, loopVars, html, markdown, exc, outcome, counters,
                 loopEnd, failedAt>>

\* ------------------------------------------------------------ visitWebPage
\* const browser = await puppeteerExtra.launch(...), outside the try.
Launch ==
  /\ pc = "launch"
  /\ \/ /\ browser' = "open"
        /\ pc' = "newPage"
        /\ UNCHANGED <<exc, failedAt>>
     \/ /\ \E k \in ThrownKinds :
             Raise("launch", Thrown(k, "Failed to launch the browser"), "toolCatch")
        /\ UNCHANGED browser
  /\ UNCHANGED <<auxVars, attemptVars, noneAt, request, loopVars, html, markdown, outcome, counters, loopEnd>>

\* const page = await browser.newPage(); await page.setViewport(...)
NewPage ==
  /\ pc = "newPage"
  /\ \/ /\ pc' = "goto"
        /\ UNCHANGED <<exc, failedAt>>
     \/ \E k \in ThrownKinds :
          Raise("newPage", Thrown(k, "Failed to open a page"), "catch")
  /\ UNCHANGED <<auxVars, attemptVars, noneAt, request, browser, loopVars, html, markdown, outcome, counters,
                 loopEnd>>

AfterLoadMut(auto) == IF auto THEN "loopTest" ELSE "closeTry"

\* if (autoInteract) await handlePageInteractions(...); then the extraction
AfterLoad(auto) == IF auto THEN "loopTest" ELSE "evaluate"

\* await page.goto(url, {waitUntil}); then the fixed 2000 ms pause.
Goto ==
  /\ pc = "goto"
  /\ \/ /\ pc' = AfterLoad(autoInteract)
        /\ loopEnd' = IF autoInteract THEN "running" ELSE "skipped"
        /\ UNCHANGED <<exc, failedAt>>
     \/ /\ \E k \in ThrownKinds :
             Raise("goto", Thrown(k, "Navigation failed"), "catch")
        /\ UNCHANGED loopEnd
  /\ UNCHANGED <<auxVars, attemptVars, noneAt, request, browser, loopVars, html, markdown, outcome, counters>>

\* -------------------------------------------------- handlePageInteractions
\* The test of the while loop; when it fails the function returns
\* interactionFound and visitWebPage goes on to the extraction.
LoopTest ==
  /\ pc = "loopTest"
  /\ IF LoopCond(attempts, maxInteractionAttempts)
       THEN /\ pc' = "screenshot"
            /\ UNCHANGED loopEnd
       ELSE /\ pc' = "evaluate"
            /\ loopEnd' = "cap"
  /\ replyKind' = "none"
  /\ actionSuccess' = "pending"
  /\ pageError' = "none"
  /\ pageOps' = <<>>
  /\ executedVariant' = Absent
  /\ UNCHANGED <<auxVars, noneAt, request, browser, loopVars, html, markdown, exc, outcome,
                 counters, failedAt>>

\* const screenshot = await page.screenshot({encoding: 'base64'})
Screenshot ==
  /\ pc = "screenshot"
  /\ screenshots' = screenshots + 1
  /\ \/ /\ pc' = "writeFile"
        /\ UNCHANGED <<exc, failedAt, loopEnd>>
     \/ /\ \E k \in ThrownKinds :
             Raise("screenshot", Thrown(k, "Screenshot failed"), "catch")
        /\ loopEnd' = "threw"
  /\ UNCHANGED <<auxVars, attemptVars, noneAt, request, browser, loopVars, html, markdown, outcome,
                 classifications, executions, extractions, conversions>>

\* await fs.promises.writeFile(filename, buffer)
WriteFile ==
  /\ pc = "writeFile"
  /\ \/ /\ pc' = "analyze"
        /\ UNCHANGED <<exc, failedAt, loopEnd>>
     \/ /\ \E k \in ThrownKinds :
             Raise("writeFile", Thrown(k, "EACCES: permission denied"), "catch")
        /\ loopEnd' = "threw"
  /\ UNCHANGED <<auxVars, attemptVars, noneAt, request, browser, loopVars, html, markdown, outcome, counters>>

\* const action = await analyzePageWithAI(screenshot); then the test for
\* 'none', which returns interactionFound.
Analyze ==
  /\ pc = "analyze"
  /\ classifications' = classifications + 1
  /\ \E reply \in ModelReplies :
       LET a == analyzePageWithAI(reply) IN
       /\ replyKind' = reply.kind
       /\ IF reply.kind \in AnalyzerThrowsOn /\ ~AnalyzerErrorCaught
            THEN /\ Raise("analyzer", Thrown("Error", "Request failed"), "catch")
                 /\ loopEnd' = "threw"
                 /\ UNCHANGED <<action, noneAt>>
            ELSE /\ noneAt' = IF a.action = Some("none") /\ noneAt = 0
                                THEN classifications' ELSE noneAt
                 /\ IF ~a.isObject
                      THEN /\ Raise("analyze",
                                    Thrown("Error", "Cannot read properties of null"),
                                    "catch")
                           /\ loopEnd' = "threw"
                           /\ UNCHANGED action
                      ELSE IF IsNone(a)
                        THEN /\ pc' = "evaluate"
                             /\ loopEnd' = "none"
                             /\ action' = a
                             /\ UNCHANGED <<exc, failedAt>>
                        ELSE /\ pc' = "execute"
                             /\ action' = a
                             /\ UNCHANGED <<exc, failedAt, loopEnd>>
  /\ UNCHANGED <<auxVars, actionSuccess, pageError, pageOps, executedVariant, request, browser, attempts,
                 interactionFound, html, markdown, outcome, screenshots,
                 executions, extractions, conversions>>

\* const actionSuccess = await executeAction(page, action)
Execute ==
  /\ pc = "execute"
  /\ executions' = executions + 1
  /\ \E pg \in PageBehaviours :
       LET returned == executeAction(action, pg) IN
       /\ pageError' = PageError(action, pg)
       /\ pageOps' = PageOps(action, pg)
       /\ executedVariant' = action.action
       /\ IF returned = "throws"
            THEN /\ \E k \in ThrownKinds :
                      Raise("execute", Thrown(k, "Execution context was destroyed"),
                            "catch")
                 /\ loopEnd' = "threw"
                 /\ UNCHANGED <<loopVars, actionSuccess>>
            ELSE /\ actionSuccess' = returned
                 /\ interactionFound' = FoundAfter(interactionFound, returned)
                 /\ pc' = AfterExecute(returned)
                 /\ IF returned = "true"
                      THEN UNCHANGED <<attempts, action>>
                      ELSE /\ attempts' = NextAttempt(attempts)
                           /\ action' = NoAction
                 /\ UNCHANGED <<exc, failedAt, loopEnd>>
  /\ UNCHANGED <<auxVars, replyKind, noneAt, request, browser, html, markdown, outcome,
                 screenshots, classifications, extractions, conversions>>

\* await new Promise(resolve => setTimeout(resolve, 2000)); attempts += 1
Settle ==
  /\ pc = "settle"
  /\ attempts' = NextAttempt(attempts)
  /\ action' = NoAction
  /\ pc' = "loopTest"
  /\ UNCHANGED <<auxVars, attemptVars, noneAt, request, browser, interactionFound, html, markdown, exc,
                 outcome, counters, loopEnd, failedAt>>

\* ------------------------------------------- visitWebPage, after the loop
\* const htmlContent = await page.evaluate(() => main.innerHTML)
Evaluate ==
  /\ pc = "evaluate"
  /\ extractions' = extractions + 1
  /\ \/ /\ \E h \in Htmls : html' = h
        /\ pc' = "process"
        /\ UNCHANGED <<exc, failedAt>>
     \/ /\ \E k \in ThrownKinds :
             Raise("evaluate", Thrown(k, "Evaluation failed"), "catch")
        /\ UNCHANGED html
  /\ replyKind' = "none"
  /\ UNCHANGED <<auxVars, actionSuccess, pageError, pageOps, executedVariant, noneAt, request, browser,
                 loopVars, markdown, outcome, screenshots, classifications,
                 executions, conversions, loopEnd>>

\* const markdown = await processHtmlContent(htmlContent)
Process ==
  /\ pc = "process"
  /\ conversions' = conversions + 1
  /\ LET r == processHtmlContent(html) IN
     IF r.threw
       THEN /\ Raise("process", r.exc, "catch")
            /\ UNCHANGED markdown
       ELSE /\ markdown' = r.markdown
            /\ pc' = "closeTry"
            /\ UNCHANGED <<exc, failedAt>>
  /\ UNCHANGED <<auxVars, attemptVars, noneAt, request, browser, loopVars, html, outcome, screenshots,
                 classifications, executions, extractions, loopEnd>>

ClosedByCatchMut(b) == b

\* await browser.close() in the catch block: the call that releases the
\* browser that the try block left open.
ClosedByCatch(b) == "closed"

\* await browser.close(); return { data: markdown }   (end of the try block)
\* close() ends the browser process even when the call itself rejects.
CloseTry ==
  /\ pc = "closeTry"
  /\ browser' = "closed"
  /\ \/ /\ result' = DataResult(markdown)
        /\ pc' = "toolResult"
        /\ UNCHANGED <<exc, failedAt>>
     \/ /\ \E k \in ThrownKinds :
             Raise("close", Thrown(k, "Protocol error: Connection closed"), "catch")
        /\ UNCHANGED result
  /\ UNCHANGED <<auxVars, attemptVars, noneAt, request, loopVars, html, markdown, response, counters, loopEnd>>

\* catch (error) { await browser.close(); return { error: { message } } }
\* A close() that rejects here leaves visitWebPage rejected.
Catch ==
  /\ pc = "catch"
  /\ browser' = ClosedByCatch(browser)
  /\ \/ /\ result' = ErrorResult(exc)
        /\ exc' = NoExc
        /\ pc' = "toolResult"
        /\ UNCHANGED failedAt
     \/ /\ \E k \in ThrownKinds :
             Raise("close", Thrown(k, "Protocol error: Connection closed"),
                   "toolCatch")
        /\ UNCHANGED result
  /\ UNCHANGED <<auxVars, attemptVars, noneAt, request, loopVars, html, markdown, response, counters, loopEnd>>

\* ------------------------------------------------- tool handler, the rest
\* visitWebPage resolved: the error or the success response.
ToolResult ==
  /\ pc = "toolResult"
  /\ response' = ToolResponse(result)
  /\ pc' = "done"
  /\ UNCHANGED <<auxVars, attemptVars, noneAt, request, browser, loopVars, html, markdown, exc, result,
                 counters, loopEnd, failedAt>>

\* catch (error: any) { return createErrorResponse(`Error scraping webpage:
\* ${error.message}`) }
ToolCatch ==
  /\ pc = "toolCatch"
  /\ response' = createErrorResponse("Error scraping webpage: " \o exc.message)
  /\ exc' = NoExc
  /\ pc' = "done"
  /\ UNCHANGED <<auxVars, attemptVars, noneAt, request, browser, loopVars, html, markdown, result, counters,
                 loopEnd, failedAt>>

Next ==
  \/ ToolCall
  \/ Launch
  \/ NewPage
  \/ Goto
  \/ LoopTest
  \/ Screenshot
  \/ WriteFile
  \/ Analyze
  \/ Execute
  \/ Settle
  \/ Evaluate
  \/ Process
  \/ CloseTry
  \/ Catch
  \/ ToolResult
  \/ ToolCatch

Spec == Init /\ [][Next]_vars

TypeOK ==
  /\ pc \in {"idle", "refused", "launch", "newPage", "goto", "loopTest",
             "screenshot", "writeFile", "analyze", "execute", "settle",
             "evaluate", "process", "closeTry", "catch", "toolResult",
             "toolCatch", "done"}
  /\ browser \in {"none", "open", "closed"}
  /\ attempts \in 0..(maxAttemptsLimit + 1)
  /\ interactionFound \in BOOLEAN
  /\ loopEnd \in {"notRun", "running", "skipped", "none", "cap", "threw"}

\* ================================================================ claims
LoopPcs == {"loopTest", "screenshot", "writeFile", "analyze", "execute", "settle"}
LoopOrigins == {"screenshot", "writeFile", "analyze", "execute"}
Returned == {"toolResult", "toolCatch", "done"}
Started == pc \notin {"idle", "refused"}

\* C1: when the classifier answers a non-None action on every call,
\* handlePageInteractions(page, N), once it has ended, has taken exactly N
\* screenshots, made exactly N classifications and called the executor
\* exactly N times, whether the actions succeeded or failed.
C1_ExactlyMaxAttempts ==
  (loopEnd \in {"cap", "threw"} /\ noneAt = 0 /\ failedAt /= "analyze")
    => /\ screenshots = maxInteractionAttempts
       /\ classifications = maxInteractionAttempts
       /\ executions = maxInteractionAttempts

\* C2: when the classifier answers None on call k the loop ends there: the
\* executor is not called for attempt k (k-1 attempts were carried out), and
\* from then on no screenshot, classification or executor call is made.
C2_NoneEndsLoop ==
  [][ /\ noneAt' /= 0 =>
           /\ pc' \notin LoopPcs
           /\ loopEnd' = "none"
           /\ noneAt' <= maxInteractionAttempts'
           /\ screenshots' = noneAt'
           /\ classifications' = noneAt'
           /\ executions' = noneAt' - 1
           /\ attempts' = noneAt' - 1
      /\ noneAt /= 0 =>
           /\ screenshots' = screenshots
           /\ classifications' = classifications
           /\ executions' = executions ]_vars

C2_Witness ==
  /\ noneAt >= 2
  /\ executions = noneAt - 1
  /\ pc = "done"

\* C3: with maxInteractionAttempts = 0 the loop never takes a screenshot,
\* never classifies, never executes; it returns at its first test with
\* interactionFound = false and attempts = 0.
C3_ZeroAttempts ==
  (Started /\ maxInteractionAttempts = 0)
    => /\ screenshots = 0
       /\ classifications = 0
       /\ executions = 0
       /\ attempts = 0
       /\ ~interactionFound
       /\ pc \notin (LoopPcs \ {"loopTest"})
       /\ loopEnd \in {"notRun", "running", "skipped", "cap"}

C3_Witness ==
  /\ maxInteractionAttempts = 0
  /\ autoInteract
  /\ loopEnd = "cap"
  /\ ~interactionFound
  /\ attempts = 0
  /\ pc = "done"

\* C4: in every state of a scrape started through the tool, the screenshots,
\* the classifier calls and the executor calls made so far number at most
\* maxInteractionAttempts, which is an integer of 0..10 (3 when the request
\* leaves it out).
C4_AttemptsBounded ==
  Started
    => /\ maxInteractionAttempts \in 0..10
       /\ (request.maxInteractionAttempts = Absent => maxInteractionAttempts = 3)
       /\ screenshots <= maxInteractionAttempts
       /\ classifications <= maxInteractionAttempts
       /\ executions <= maxInteractionAttempts
       /\ screenshots <= 10

C4_Witness ==
  /\ pc = "done"
  /\ screenshots = 10
  /\ classifications = 10
  /\ executions = 10

\* C5: a failure inside the interaction loop (screenshot, screenshot file,
\* classification, action) never becomes the {error} result of visitWebPage.
C5_LoopFailureAbsorbed ==
  ~(IsPresent(result.error) /\ failedAt \in LoopOrigins)

C7_StructuredError ==
  pc = "done"
    => /\ response.sent
       /\ exc = NoExc
       /\ failedAt /= "none" =>
            /\ response.isError
            /\ ~response.success
            /\ response.text = 0
            /\ response.message /= ""

C7_Witness ==
  /\ pc = "done"
  /\ failedAt = "launch"
  /\ response.isError
  /\ response.message = "Error scraping webpage: Failed to launch the browser"

\* C8: a ScrapeResult returned by visitWebPage has exactly one of data and
\* error.
C8_DataXorError ==
  result.returned => (IsPresent(result.data) /= IsPresent(result.error))

C8_Witness ==
  /\ result.returned
  /\ IsPresent(result.error)
  /\ failedAt = "evaluate"

\* C9: when Readability yields no article the scrape ends in an error with a
\* message and without data, the extraction and the conversion have run once
\* and nothing of the loop, the extraction or the conversion runs again.
NoArticle == conversions >= 1 /\ ~html.article

C9_NoArticleIsFatal ==
  [][ /\ NoArticle' =>
           /\ extractions' = 1
           /\ conversions' = 1
           /\ pc' \in {"catch", "toolResult", "toolCatch", "done"}
           /\ result'.returned =>
                /\ result'.data = Absent
                /\ result'.error =
                     Some([message |-> "Failed to parse the article content."])
           /\ pc' = "done" =>
                /\ response'.isError
                /\ response'.text = 0
                /\ response'.message /= ""
      /\ NoArticle => counters' = counters ]_vars

C9_Witness ==
  /\ NoArticle
  /\ pc = "done"
  /\ result.returned
  /\ response.isError

\* C10: the steps of a scrape come in the order navigation, interaction
\* loop, extraction, conversion, result; the extraction runs at most once,
\* only after the loop has ended, and it has run once whenever the scrape
\* ends after a loop that ended on None, ended at the cap, or was skipped.
C10_StepOrder ==
  [][ /\ extractions' <= 1
      /\ conversions' <= extractions'
      /\ extractions' = 1 => loopEnd' \in {"none", "cap", "skipped"}
      /\ loopEnd' /= "notRun" => pc' \notin {"launch", "newPage", "goto"}
      /\ extractions = 1 =>
           /\ screenshots' = screenshots
           /\ classifications' = classifications
           /\ executions' = executions
           /\ pc' \notin LoopPcs
      /\ IsPresent(result'.data) => conversions' = 1
      /\ (pc' \in Returned /\ loopEnd' \in {"none", "cap", "skipped"})
           => extractions' = 1 ]_vars

C10_Witness ==
  /\ loopEnd = "cap"
  /\ attempts >= 1
  /\ ~interactionFound
  /\ IsPresent(result.data)
  /\ extractions = 1

\* C13: Markdown longer than 100,000 characters is returned cut to its first
\* 100,000 characters with a status message that is the truncation notice;
\* Markdown of at most 100,000 characters is returned whole with the message
\* "Scraping successful".
C13_Truncation ==
  (pc = "done" /\ IsPresent(result.data))
    => LET full == Get(result.data) IN
       IF full > 100000
         THEN /\ response.text = 100000
              /\ response.message \notin {"", "Scraping successful"}
              /\ ~response.isError
         ELSE /\ response.text = full
              /\ response.message = "Scraping successful"

C13_Witness ==
  /\ pc = "done"
  /\ result.data = Some(100001)
  /\ response.text = 100000
  /\ response.message /= "Scraping successful"

\* C38: when the tool truncates the content, the message of the response
\* reports the total size of the content, its length before truncation.
C38_ReportsTotalSize ==
  (pc = "done" /\ IsPresent(result.data) /\ Get(result.data) > maxLength)
    => response.message =
         "Content truncated due to size (total size: "
           \o ToString(Get(result.data)) \o " characters)"

\* C19: the response says success exactly when visitWebPage returned a result
\* without error; a success response has contentSize equal to the length of
\* its text, a failure response has the empty text and success = false.
C19_SuccessFlag ==
  pc = "done"
    => /\ response.success = (result.returned /\ ~IsPresent(result.error))
       /\ response.success => response.contentSize = Some(response.text)
       /\ ~response.success => (response.text = 0 /\ response.isError)

C19_Witness ==
  /\ pc = "done"
  /\ response.success
  /\ response.text = 1
  /\ response.contentSize = Some(1)

\* C20: a rejected write of the screenshot file does not end the loop: from the
\* write the attempt always goes on to the classification.
C20_WriteFailureTolerated ==
  [][pc = "writeFile" => (pc' = "analyze" /\ loopEnd' = "running")]_vars

\* ================================================= the cross-frame text click
\* executeAction on a click action, with clickElementsByText taken step by
\* step: page.frames() gives 1..MaxFrames frames, the async body of each frame
\* runs on its own (Promise.all), each of its awaits being one step.  A frame
\* record holds: n, the number of indexes $$eval gathered; e, how many of
\* those indexes still hold an element when frame.$$ lists the elements
\* again; attempted, ok and rejected, the click() calls made, resolved and
\* rejected; threw, whether the body of this frame ended in its catch; found, count, error, the result
\* object of the frame.
ClickActions ==
  {AIAction(Some("click"), tt, ts, Absent, Absent, Absent, TRUE) :
      tt \in OptStr, ts \in OptStr}

FrameErrorCaughtMut == FALSE

\* try { ... } catch (error) { return {frame, found: false, count: 0, error} }
\* around the body of each frame.
FrameErrorCaught == TRUE

ClickErrorCaughtMut == FALSE

\* try { await allElements[idx].click() } catch (clickError) { log }
ClickErrorCaught == TRUE

\* return { frame, found: false, count: 0, error }
FrameFailed(fr) ==
  [fr EXCEPT !.pc = "done", !.threw = TRUE, !.found = FALSE, !.count = 0,
             !.error = TRUE]

RECURSIVE SumCounts(_, _)
\* successfulFrames.reduce((sum, r) => sum + r.count, 0)
SumCounts(fs, k) ==
  IF k = 0 THEN 0
  ELSE SumCounts(fs, k - 1) + (IF fs[k].found THEN fs[k].count ELSE 0)

\* results.filter(r => r.found) and the total that is logged.
Aggregate(fs) ==
  [successfulFrames |-> Cardinality({f \in 1..MaxFrames : fs[f].found}),
   totalClicks |-> SumCounts(fs, MaxFrames)]

\* The rejection of a frame body that nothing catches rejects Promise.all and
\* with it clickElementsByText and executeAction.
Uncaught ==
  /\ cpc' = "returned"
  /\ execResult' =
       executeAction(caction, [wait |-> TRUE, act |-> TRUE, byText |-> "throws"])
  /\ UNCHANGED <<caction, frames, agg>>

AwaitedMut == FALSE

\* Every promise of the loop and of the text click is awaited: the
\* screenshot, the classifier, executeAction, the settle delay, and
\* await Promise.all(...) over the frames.
Awaited == TRUE

\* The top of an iteration of handlePageInteractions: the screenshot is
\* taken and saved and the classifier answers with a click action.
Observe ==
  /\ cpc = "idle"
  /\ cpc' = "observed"
  /\ UNCHANGED <<caction, frames, agg, execResult, settleTimer, besidesLoop>>

\* case 'click': if (action.targetText) { await clickElementsByText(...) }
\* up to const frames = page.frames().
DispatchByText ==
  /\ cpc = "observed"
  /\ \E a \in ClickActions, nf \in 1..MaxFrames :
       /\ TruthyStr(a.targetText)
       /\ caction' = a
       /\ frames' = [f \in 1..MaxFrames |->
                       IF f <= nf THEN [NoFrame EXCEPT !.pc = "scan"]
                       ELSE NoFrame]
  /\ cpc' = "frames"
  /\ agg' = NoAgg
  /\ execResult' = "pending"
  /\ UNCHANGED besidesClick

\* case 'click' without a usable targetText: the selector branch, or false.
DispatchBySelector ==
  /\ cpc = "observed"
  /\ \E a \in ClickActions, w \in BOOLEAN, c \in BOOLEAN :
       /\ ~TruthyStr(a.targetText)
       /\ caction' = a
       /\ execResult' =
            executeAction(a, [wait |-> w, act |-> c, byText |-> "returns"])
  /\ cpc' = "returned"
  /\ frames' = [f \in 1..MaxFrames |-> NoFrame]
  /\ agg' = NoAgg
  /\ UNCHANGED besidesClick

\* const elementIndexes = await frame.$$eval('a, button', ...): it rejects, or
\* it gathers n indexes; none gathered ends the frame with found: false.
FrameScan(f) ==
  /\ cpc = "frames"
  /\ frames[f].pc = "scan"
  /\ \/ IF FrameErrorCaught
          THEN /\ frames' = [frames EXCEPT ![f] = FrameFailed(@)]
               /\ UNCHANGED <<cpc, caction, agg, execResult>>
          ELSE Uncaught
     \/ /\ \E n \in 0..MaxMatches :
             frames' = [frames EXCEPT ![f] =
                          IF n = 0
                            THEN [@ EXCEPT !.pc = "done"]
                            ELSE [@ EXCEPT !.pc = "requery", !.n = n]]
        /\ UNCHANGED <<cpc, caction, agg, execResult>>
  /\ UNCHANGED besidesClick

\* const allElements = await frame.$$('a, button'): it rejects, or it lists
\* the elements the frame has now, e of the n indexes still among them.
FrameRequery(f) ==
  /\ cpc = "frames"
  /\ frames[f].pc = "requery"
  /\ \/ IF FrameErrorCaught
          THEN /\ frames' = [frames EXCEPT ![f] = FrameFailed(@)]
               /\ UNCHANGED <<cpc, caction, agg, execResult>>
          ELSE Uncaught
     \/ /\ \E e \in 0..frames[f].n :
             frames' = [frames EXCEPT ![f] = [@ EXCEPT !.pc = "click", !.e = e]]
        /\ UNCHANGED <<cpc, caction, agg, execResult>>
  /\ UNCHANGED besidesClick

\* elementIndexes.map(async idx => { if (allElements[idx]) ... click() }):
\* map runs every callback up to its await, so click() is called on each of
\* the e elements before any of the calls settles.
FrameClick(f) ==
  /\ cpc = "frames"
  /\ frames[f].pc = "click"
  /\ frames' = [frames EXCEPT ![f] =
                  [@ EXCEPT !.pc = "clicks", !.attempted = frames[f].e]]
  /\ UNCHANGED <<cpc, caction, agg, execResult, besidesClick>>

\* One click() call of the frame settles: it resolves, or it rejects and
\* the catch around it logs the error.
ElementSettles(f) ==
  /\ cpc = "frames"
  /\ frames[f].pc = "clicks"
  /\ frames[f].ok + frames[f].rejected < frames[f].attempted
  /\ \/ /\ frames' = [frames EXCEPT ![f].ok = @ + 1]
        /\ UNCHANGED <<cpc, caction, agg, execResult>>
     \/ IF ClickErrorCaught
          THEN /\ frames' = [frames EXCEPT ![f].rejected = @ + 1]
               /\ UNCHANGED <<cpc, caction, agg, execResult>>
          ELSE IF FrameErrorCaught
            THEN /\ frames' = [frames EXCEPT ![f] =
                                 FrameFailed([@ EXCEPT !.rejected = @ + 1])]
                 /\ UNCHANGED <<cpc, caction, agg, execResult>>
            ELSE Uncaught
  /\ UNCHANGED besidesClick

\* The inner Promise.all has resolved: return {frame, found: true, count:
\* elementIndexes.length}.
FrameReturn(f) ==
  /\ cpc = "frames"
  /\ frames[f].pc = "clicks"
  /\ frames[f].ok + frames[f].rejected = frames[f].attempted
  /\ frames' = [frames EXCEPT ![f] =
                  [@ EXCEPT !.pc = "done", !.found = TRUE,
                            !.count = frames[f].n]]
  /\ UNCHANGED <<cpc, caction, agg, execResult, besidesClick>>

\* Promise.all has resolved: the aggregate is logged, clickElementsByText
\* returns and executeAction returns true.
ClickReturn ==
  /\ cpc = "frames"
  /\ Awaited => \A f \in 1..MaxFrames : frames[f].pc \in {"absent", "done"}
  /\ agg' = Aggregate(frames)
  /\ execResult' =
       executeAction(caction, [wait |-> TRUE, act |-> TRUE, byText |-> "returns"])
  /\ cpc' = "returned"
  /\ UNCHANGED <<caction, frames, besidesClick>>

\* if (actionSuccess) { ...; await new Promise(r => setTimeout(r, 2000)) };
\* attempts += 1 and back to the test of the loop.  An executeAction that
\* threw has left the loop.
AfterExecuted ==
  /\ cpc = "returned"
  /\ execResult \in {"true", "false"}
  /\ IF execResult = "true"
       THEN /\ settleTimer' = "running"
            /\ cpc' = IF Awaited THEN "settle" ELSE "idle"
       ELSE /\ cpc' = "idle"
            /\ UNCHANGED settleTimer
  /\ UNCHANGED <<caction, frames, agg, execResult, besidesLoop>>

\* The timer of the settle delay fires.
Settled ==
  /\ settleTimer = "running"
  /\ settleTimer' = "off"
  /\ cpc' = IF cpc = "settle" THEN "idle" ELSE cpc
  /\ UNCHANGED <<caction, frames, agg, execResult, besidesLoop>>

NextClick ==
  \/ Observe
  \/ DispatchByText
  \/ DispatchBySelector
  \/ \E f \in 1..MaxFrames : FrameScan(f)
  \/ \E f \in 1..MaxFrames : FrameRequery(f)
  \/ \E f \in 1..MaxFrames : FrameClick(f)
  \/ \E f \in 1..MaxFrames : ElementSettles(f)
  \/ \E f \in 1..MaxFrames : FrameReturn(f)
  \/ ClickReturn
  \/ AfterExecuted
  \/ Settled

SpecClick == Init /\ [][NextClick]_vars

RECURSIVE SumMatches(_, _)
\* The matches gathered in the first k frames by frames in which no call
\* rejected.
SumMatches(fs, k) ==
  IF k = 0 THEN 0
  ELSE SumMatches(fs, k - 1) + (IF fs[k].threw THEN 0 ELSE fs[k].n)

TextClickReturned == cpc = "returned" /\ TruthyStr(caction.targetText)

C12_TextClickReportsTrue ==
  (cpc = "returned" /\ IsPresent(caction.targetText))
    => /\ execResult \in {"true", "false"}
       /\ TruthyStr(caction.targetText) => execResult = "true"

C12_Witness ==
  /\ TextClickReturned
  /\ frames[1].pc = "done" /\ frames[1].threw
  /\ frames[2].found /\ frames[2].attempted = 2 /\ frames[2].ok = 0
  /\ agg.successfulFrames = 1
  /\ execResult = "true"

\* C33: within one frame of the text click, a click() that rejects keeps no
\* other matching element of that frame from having click() called on it,
\* and the frame still ends with found: true and its full count.
C33_ElementIsolation ==
  \A f \in 1..MaxFrames :
    frames[f].rejected > 0 =>
      /\ frames[f].attempted = frames[f].e
      /\ ~frames[f].threw
      /\ frames[f].pc \in {"clicks", "done"}
      /\ frames[f].pc = "done" =>
           /\ frames[f].ok + frames[f].rejected = frames[f].attempted
           /\ frames[f].found
           /\ frames[f].count = frames[f].n
           /\ ~frames[f].error

C33_Witness ==
  /\ TextClickReturned
  /\ frames[1].pc = "done"
  /\ frames[1].attempted = 2 /\ frames[1].rejected = 1 /\ frames[1].ok = 1
  /\ frames[1].found /\ frames[1].count = 2
  /\ agg.totalClicks = 2

\* A frame body or a click() of the text click is still running.
FrameRunning(f) ==
  \/ frames[f].pc \notin {"absent", "done"}
  \/ frames[f].ok + frames[f].rejected /= frames[f].attempted

\* C39: at most one attempt of a scrape is in flight: while the screenshot
\* of an attempt is taken and classified, no frame body, no click() and no
\* settle delay of an earlier attempt is running; the settle delay runs
\* alone; frame bodies and clicks run only inside one text click, and all
\* of them have ended when executeAction reports its result.
C39_OneAttemptInFlight ==
  /\ cpc /= "frames" => \A f \in 1..MaxFrames : ~FrameRunning(f)
  /\ settleTimer = "running" => cpc = "settle"
  /\ cpc = "observed" => settleTimer = "off"
  /\ cpc = "returned" => execResult /= "pending"

C39_Witness ==
  /\ cpc = "observed"
  /\ execResult = "true"
  /\ settleTimer = "off"
  /\ frames[1].pc = "done" /\ frames[1].attempted = 2 /\ frames[1].rejected = 1
  /\ frames[2].pc = "done" /\ frames[2].attempted = 1
  /\ agg.successfulFrames = 2

\* ===================================================== SpecRender: Turndown
\* configureTurndownService, studied on its own: a node is handed to the
\* service and the rule Turndown selects for it produces its Markdown.

MaxCodeLen == 5
MaxCellLen == 2
MaxCols == 2
MaxRows == 2

RECURSIVE TextsUpTo(_, _)
\* The texts of at most n characters over the alphabet cs.
TextsUpTo(cs, n) ==
  IF n = 0 THEN {<<>>}
  ELSE LET shorter == TextsUpTo(cs, n - 1)
       IN  shorter \cup {<<c>> \o t : c \in cs, t \in {u \in shorter : Len(u) = n - 1}}

\* A pre element: its text, the language-xxx class of its code child (if any)
\* and its data-language attribute (if any).
PreNodes ==
  {[NoNode EXCEPT !.kind = "pre", !.text = t, !.codeLanguage = cl,
                  !.dataLanguage = dl] :
     t \in TextsUpTo({"a", "\n"}, MaxCodeLen),
     cl \in {Absent, Some("js")},
     dl \in {Absent, Some(""), Some("py")}}

\* A th or td element: either it holds p elements (ps, their texts) or plain
\* text.
CellTexts == TextsUpTo({"a", " ", "|"}, MaxCellLen)
ParagraphTexts == {<<>>, <<" ">>, <<"a">>}
CellNodes ==
  {[NoNode EXCEPT !.kind = k, !.text = t] : k \in {"td", "th"}, t \in CellTexts}
    \cup
  {[NoNode EXCEPT !.kind = k, !.ps = ps] :
     k \in {"td", "th"},
     ps \in [1..1 -> ParagraphTexts] \cup [1..2 -> ParagraphTexts]}

\* A table: the cells of the row of its thead (none: no thead) and the rows
\* of its tbody, all rows of the same width; a cell is given by its text.
TableTexts == {<<>>, <<"a">>}
TableNodes ==
  UNION {
    {[NoNode EXCEPT !.kind = "table", !.header = h, !.rows = r] :
       h \in {<<>>} \cup [1..n -> TableTexts],
       r \in UNION {[1..k -> [1..n -> TableTexts]] : k \in 0..MaxRows}}
    : n \in 1..MaxCols}

RenderInputs == PreNodes \cup CellNodes \cup TableNodes

\* --- the rules, in the order configureTurndownService adds them
AddedRules ==
  <<"codeBlocks", "tableCell", "tableRow", "table", "preserveTableWhitespace">>

\* Rules.add unshifts: the rule added last is consulted first.
RulesArrayMut(added) == added
RulesArray(added) == [i \in 1..Len(added) |-> added[Len(added) + 1 - i]]

\* node.textContent of a cell
textContent(node) == IF node.ps /= <<>> THEN Flatten(node.ps) ELSE node.text

\* The filter of each added rule.
Filter(rule, node) ==
  CASE rule = "codeBlocks" -> node.kind = "pre"
    [] rule = "tableCell" -> node.kind \in {"th", "td"}
    [] rule = "tableRow" -> node.kind = "tr"
    [] rule = "table" -> node.kind = "table"
    [] rule = "preserveTableWhitespace" ->
         node.kind \in {"td", "th"} /\ Len(trim(textContent(node))) = 0
    [] OTHER -> FALSE

\* Rules.forNode: the first rule of the array whose filter accepts the node
\* (th and td are meaningful when blank, so the blank rule never takes them),
\* else Turndown's default rule.
forNode(node, array) ==
  LET hits == {i \in 1..Len(array) : Filter(array[i], node)}
  IN  IF hits = {} THEN "default"
      ELSE array[CHOOSE i \in hits : \A j \in hits : i <= j]

\* --- codeBlocks
resolveLanguageMut(node) ==
  IF TruthyStr(node.dataLanguage) THEN Get(node.dataLanguage)
  ELSE IF IsPresent(node.codeLanguage) THEN Get(node.codeLanguage)
  ELSE "yaml"

resolveLanguage(node) ==
  IF IsPresent(node.codeLanguage) THEN Get(node.codeLanguage)
  ELSE IF TruthyStr(node.dataLanguage) THEN Get(node.dataLanguage)
  ELSE "yaml"

cleanContentMut(content) == SqueezeNewlines(content)
cleanContent(content) == SqueezeNewlines(StripNewlines(content))

\* The fence of a fenced code block: three backquote characters.
Backticks == "<three backquotes>"

Fenced(language, content) ==
  <<"\n", Backticks, language, "\n">> \o content \o <<"\n", Backticks, "\n">>

codeBlocks(content, node) == Fenced(resolveLanguage(node), cleanContent(content))

\* --- tableCell
RECURSIVE JoinWith(_, _)
\* Array.prototype.join
JoinWith(ts, sep) ==
  IF ts = <<>> THEN <<>>
  ELSE IF Len(ts) = 1 THEN ts[1]
  ELSE ts[1] \o sep \o JoinWith(Tail(ts), sep)

tableCell(content, node) ==
  LET cellContent == IF node.ps /= <<>> THEN trim(JoinWith(node.ps, <<" ">>))
                     ELSE trim(content)
  IN  <<" ">> \o EscapePipes(cellContent) \o <<" ", "|">>

\* --- preserveTableWhitespace
preserveTableWhitespace == <<" ", "|">>

\* The Markdown of a cell when the rules are consulted in the order of array.
RenderCellWith(array, node) ==
  IF forNode(node, array) = "preserveTableWhitespace"
    THEN preserveTableWhitespace
    ELSE tableCell(node.text, node)

\* --- Turndown's process: the replacements of the children, joined so that
\* at most two newlines separate neighbours.
join(output, replacement) ==
  LET s1 == DropEndWhile(output, {"\n"})
      s2 == DropWhile(replacement, {"\n"})
      a == Len(output) - Len(s1)
      b == Len(replacement) - Len(s2)
      nls == IF a >= b THEN a ELSE b
  IN  s1 \o SubSeq(<<"\n", "\n">>, 1, IF nls >= 2 THEN 2 ELSE nls) \o s2

RECURSIVE ProcessFrom(_, _)
ProcessFrom(output, replacements) ==
  IF replacements = <<>> THEN output
  ELSE ProcessFrom(join(output, Head(replacements)), Tail(replacements))

process(replacements) == ProcessFrom(<<>>, replacements)

\* --- tableRow
Dashes == <<"-", "-", "-">>

tableRow(content, n, isHeader, hasNext) ==
  LET separator == JoinWith([i \in 1..n |-> Dashes], <<" ", "|", " ">>)
      output == <<"|">> \o trimEnd(content)
      withSeparator == IF isHeader
                         THEN output \o <<"\n", "|">> \o separator \o <<"|">>
                         ELSE output
  IN  IF ~isHeader \/ ~hasNext THEN withSeparator \o <<"\n">> ELSE withSeparator

\* --- table
tableMut(content) == <<"\n">> \o trim(content) \o <<"\n">>
table(content) == <<"\n">> \o trim(SqueezeNewlines(content)) \o <<"\n">>

\* Turndown's default rule for a block element (thead, tbody).
defaultBlock(content) == <<"\n", "\n">> \o content \o <<"\n", "\n">>

CellNode(tag, t) == [NoNode EXCEPT !.kind = tag, !.text = t]

\* The Markdown of a row of cells.
RenderRow(tag, cells, isHeader, hasNext) ==
  tableRow(process([i \in 1..Len(cells) |->
                      RenderCellWith(RulesArray(AddedRules), CellNode(tag, cells[i]))]),
           Len(cells), isHeader, hasNext)

\* The Markdown of a whole table element.
RenderTableNode(node) ==
  LET thead == IF node.header = <<>> THEN <<>>
               ELSE <<defaultBlock(process(<<RenderRow("th", node.header, TRUE, FALSE)>>))>>
      tbody == IF node.rows = <<>> THEN <<>>
               ELSE <<defaultBlock(process(
                        [i \in 1..Len(node.rows) |->
                           RenderRow("td", node.rows[i], FALSE, i < Len(node.rows))]))>>
  IN  table(process(thead \o tbody))

\* --- the renderer at work
RenderPre ==
  /\ rin.kind = "pre"
  /\ rout = Absent
  /\ forNode(rin, RulesArray(AddedRules)) = "codeBlocks"
  /\ rout' = Some(codeBlocks(rin.text, rin))
  /\ UNCHANGED <<rin, besidesRender>>

RenderCell ==
  /\ rin.kind \in {"td", "th"}
  /\ rout = Absent
  /\ rout' = Some(RenderCellWith(RulesArray(AddedRules), rin))
  /\ UNCHANGED <<rin, besidesRender>>

RenderTable ==
  /\ rin.kind = "table"
  /\ rout = Absent
  /\ forNode(rin, RulesArray(AddedRules)) = "table"
  /\ rout' = Some(RenderTableNode(rin))
  /\ UNCHANGED <<rin, besidesRender>>

InitRender ==
  /\ ScrapeIdle
  /\ ClickIdle
  /\ DomIdle
  /\ FilesIdle
  /\ RequeryIdle
  /\ LaterIdle
  /\ rin \in RenderInputs
  /\ rout = Absent

NextRender ==
  \/ RenderPre
  \/ RenderCell
  \/ RenderTable

SpecRender == InitRender /\ [][NextRender]_vars

\* --------------------------------------------------------- claims (render)
RECURSIVE SplitLines(_, _)
\* The lines of a text: `line` is the line being read.
SplitLines(t, line) ==
  IF t = <<>> THEN <<line>>
  ELSE IF Head(t) = "\n" THEN <<line>> \o SplitLines(Tail(t), <<>>)
  ELSE SplitLines(Tail(t), Append(line, Head(t)))

Lines(t) == SplitLines(t, <<>>)

NonEmptyLines(t) == SelectSeq(Lines(t), LAMBDA l : l /= <<>>)

\* The line a row of cells is expected to give: a pipe, then each cell as
\* " text |", a blank cell as " |".
CellsLine(cells) ==
  <<"|">> \o Flatten([i \in 1..Len(cells) |->
                        IF cells[i] = <<>> THEN <<" ", "|">>
                        ELSE <<" ">> \o cells[i] \o <<" ", "|">>])

\* The table between its leading and trailing newline, line by line.
TableLines == Lines(SubSeq(Get(rout), 2, Len(Get(rout)) - 1))

TableWithHeaderRendered ==
  /\ rin.kind = "table"
  /\ rin.header /= <<>>
  /\ rin.rows /= <<>>
  /\ IsPresent(rout)

\* Header line, separator line, one line per data row, every line between
\* pipes, no line empty.
TableShape(separatorLine) ==
  LET ls == TableLines
  IN  /\ Len(ls) = 2 + Len(rin.rows)
      /\ ls[1] = CellsLine(rin.header)
      /\ ls[2] = separatorLine
      /\ \A i \in 1..Len(rin.rows) : ls[2 + i] = CellsLine(rin.rows[i])
      /\ \A i \in 1..Len(ls) :
           ls[i] /= <<>> /\ Head(ls[i]) = "|" /\ ls[i][Len(ls[i])] = "|"
      /\ Head(Get(rout)) = "\n" /\ Get(rout)[Len(Get(rout))] = "\n"

\* "| --- | --- |": every dash group between spaces.
SpacedSeparator(n) ==
  <<"|">> \o Flatten([i \in 1..n |-> <<" ">> \o Dashes \o <<" ", "|">>])

\* "|--- | ---|": the dash groups joined by " | " between two bare pipes.
JoinedSeparator(n) ==
  <<"|">> \o Dashes
    \o Flatten([i \in 1..(n - 1) |-> <<" ", "|", " ">> \o Dashes]) \o <<"|">>

\* C14 as stated: a table with a header row of n columns and data rows
\* renders as the header line, the separator line "| --- | --- |" (one
\* spaced dash group per column), then one line per data row, every line
\* pipe-delimited and nothing blank in between.
C14_SpacedSeparator ==
  TableWithHeaderRendered => TableShape(SpacedSeparator(Len(rin.header)))

\* C14, amended: a table whose thead row has n columns, followed by data
\* rows, renders as the header line, then the separator line
\* "|--- | ---|" (n dash groups joined by " | " between two bare pipes),
\* then one line per data row, every line pipe-delimited and no blank line
\* anywhere.
C14_TableLayout ==
  TableWithHeaderRendered => TableShape(JoinedSeparator(Len(rin.header)))

C14_Witness ==
  /\ TableWithHeaderRendered
  /\ Len(rin.header) = 2
  /\ Len(rin.rows) = 2
  /\ rin.header = <<<<"a">>, <<"a">>>>
  /\ TableLines[2] = <<"|", "-", "-", "-", " ", "|", " ", "-", "-", "-", "|">>

PreRendered == rin.kind = "pre" /\ IsPresent(rout)

RECURSIVE KeepOneBlankLine(_)
\* Every run of two or more blank lines (three or more newlines) becomes one
\* blank line.
KeepOneBlankLine(t) ==
  IF Len(t) < 3 THEN t
  ELSE IF t[1] = "\n" /\ t[2] = "\n" /\ t[3] = "\n" THEN KeepOneBlankLine(Tail(t))
  ELSE <<t[1]>> \o KeepOneBlankLine(Tail(t))

LanguageTag == Get(rout)[3]

\* C35: the language tag of a rendered code block is the language-xxx class
\* of the nested code element when there is one; otherwise the data-language
\* attribute of the pre when it has one (an empty attribute counts as none);
\* otherwise yaml.  A later source is used only when every earlier one is
\* absent.
C35_LanguageOrder ==
  PreRendered =>
    LET noData == rin.dataLanguage \in {Absent, Some("")} IN
    /\ Get(rout)[2] = Backticks
    /\ IsPresent(rin.codeLanguage) => LanguageTag = Get(rin.codeLanguage)
    /\ (~IsPresent(rin.codeLanguage) /\ ~noData)
         => LanguageTag = Get(rin.dataLanguage)
    /\ (~IsPresent(rin.codeLanguage) /\ noData) => LanguageTag = "yaml"

C35_Witness ==
  /\ PreRendered
  /\ rin.codeLanguage = Some("js")
  /\ rin.dataLanguage = Some("py")
  /\ LanguageTag = "js"

BlankCellRendered ==
  /\ rin.kind \in {"td", "th"}
  /\ IsPresent(rout)
  /\ \A i \in 1..Len(textContent(rin)) : IsSpace(textContent(rin)[i])

\* The orders in which the five rules could be consulted.
ConsultationOrders ==
  {o \in [1..Len(AddedRules) -> {AddedRules[i] : i \in 1..Len(AddedRules)}] :
     \A i, j \in 1..Len(AddedRules) : i /= j => o[i] /= o[j]}

Tags == {"div", "pre", "code"}

RECURSIVE Ancestors(_, _)
\* The proper ancestors of element i: parentElement, repeated up to the root.
Ancestors(d, i) ==
  IF d.parent[i] = 0 THEN {} ELSE {d.parent[i]} \cup Ancestors(d, d.parent[i])

\* The documents of at most MaxNodes elements, numbered in document order:
\* an element follows its parent, and comes right after the subtree of the
\* sibling before it.
Documents ==
  UNION {
    {[n |-> n, parent |-> p, tag |-> t] :
       p \in {q \in [1..n -> 0..(n - 1)] :
                /\ q[1] = 0
                /\ \A i \in 2..n :
                     LET before == [n |-> n, parent |-> q, tag |-> <<>>]
                     IN  q[i] \in {i - 1} \cup Ancestors(before, i - 1)},
       t \in {u \in [1..n -> Tags \cup {"html"}] :
                u[1] = "html" /\ \A i \in 2..n : u[i] \in Tags}}
    : n \in 1..MaxNodes}

\* document.querySelectorAll(selector): the elements of these tags, and the
\* first of them at or after element i (0: none is left).
Selected(d, tags) == {i \in 1..d.n : d.tag[i] \in tags}

NextSelected(d, tags, i) ==
  LET left == {j \in Selected(d, tags) : j >= i}
  IN  IF left = {} THEN 0 ELSE CHOOSE j \in left : \A k \in left : j <= k

\* node.querySelector('pre, code'): the node has a pre or code descendant.
querySelector(d, node) ==
  \E j \in Selected(d, {"pre", "code"}) : node \in Ancestors(d, j)

RECURSIVE MarkUp(_, _)
\* The elements markCodeParents marks when called on node and, by its
\* recursion, on every ancestor of node.
MarkUp(d, node) ==
  IF node = 0 THEN {}
  ELSE (IF querySelector(d, node) THEN {node} ELSE {}) \cup MarkUp(d, d.parent[node])

markCodeParentsMut(d, node) ==
  IF node /= 0 /\ querySelector(d, node) THEN {node} ELSE {}
markCodeParents(d, node) == MarkUp(d, node)

RECURSIVE Visited(_, _)
\* The elements one call of markCodeParents looks at, in order: node, then
\* by the recursive call its parentElement, until that is null.
Visited(d, node) ==
  IF node = 0 THEN <<>> ELSE <<node>> \o Visited(d, d.parent[node])

classListAddMut(list, token) == Append(list, token)

\* classList.add(token): a token the list already holds is not added again.
classListAdd(list, token) ==
  IF \E k \in 1..Len(list) : list[k] = token THEN list ELSE Append(list, token)

\* classList.add('article-content') on each of the elements els.
AddClass(els) ==
  [i \in 1..MaxNodes |->
     IF i \in els THEN classListAdd(classList[i], "article-content")
     ELSE classList[i]]

\* preElements.forEach(pre => ...): one pre element
MarkPre ==
  /\ dpc = "pres"
  /\ NextSelected(dom, {"pre"}, di) /= 0
  /\ LET pre == NextSelected(dom, {"pre"}, di) IN
       /\ articleContent' =
            articleContent \cup {pre}
              \cup (IF dom.parent[pre] /= 0 THEN {dom.parent[pre]} ELSE {})
       /\ readableScore' = readableScore \cup {pre}
       /\ classList' =
            AddClass({pre} \cup (IF dom.parent[pre] /= 0 THEN {dom.parent[pre]}
                                                        ELSE {}))
       /\ di' = pre + 1
  /\ UNCHANGED <<dom, dpc, firstPass, besidesDom>>

\* the first forEach has gone through every pre
EndPres ==
  /\ dpc = "pres"
  /\ NextSelected(dom, {"pre"}, di) = 0
  /\ dpc' = "parents"
  /\ di' = 1
  /\ UNCHANGED <<dom, articleContent, readableScore, classList, firstPass,
                 besidesDom>>

\* document.querySelectorAll('pre, code').forEach(pre =>
\*   markCodeParents(pre.parentElement)): one element
MarkParents ==
  /\ dpc = "parents"
  /\ NextSelected(dom, {"pre", "code"}, di) /= 0
  /\ LET pre == NextSelected(dom, {"pre", "code"}, di)
         marked == markCodeParents(dom, dom.parent[pre])
     IN  /\ articleContent' = articleContent \cup marked
         /\ readableScore' = readableScore \cup marked
         /\ classList' = AddClass(marked)
         /\ di' = pre + 1
  /\ UNCHANGED <<dom, dpc, firstPass, besidesDom>>

\* the second forEach has gone through every pre and code
EndParents ==
  /\ dpc = "parents"
  /\ NextSelected(dom, {"pre", "code"}, di) = 0
  /\ dpc' = "marked"
  /\ UNCHANGED <<dom, articleContent, readableScore, di, classList, firstPass,
                 besidesDom>>

\* The two loops are run once more on the document they have marked.
MarkAgain ==
  /\ dpc = "marked"
  /\ ~firstPass.taken
  /\ firstPass' = [taken |-> TRUE, classes |-> classList, scores |-> readableScore]
  /\ dpc' = "pres"
  /\ di' = 1
  /\ UNCHANGED <<dom, articleContent, readableScore, classList, besidesDom>>

InitDom ==
  /\ ScrapeIdle
  /\ ClickIdle
  /\ RenderIdle
  /\ FilesIdle
  /\ RequeryIdle
  /\ LaterIdle
  /\ dom \in Documents
  /\ articleContent = {}
  /\ readableScore = {}
  /\ dpc = "pres"
  /\ di = 1
  /\ classList = NoClasses
  /\ firstPass = NoPass

NextDom ==
  \/ MarkPre
  \/ EndPres
  \/ MarkParents
  \/ EndParents
  \/ MarkAgain

SpecDom == InitDom /\ [][NextDom]_vars

\* C17: once the marking pass is over, every ancestor (up to the root) of
\* every pre or code element carries the class 'article-content' and the
\* attribute data-readable-content-score.
C17_AncestorsMarked ==
  dpc = "marked" =>
    \A e \in Selected(dom, {"pre", "code"}) :
      \A a \in Ancestors(dom, e) :
        a \in articleContent /\ a \in readableScore

\* A pre four levels deep, the only code of the document: its four ancestors
\* are marked.
C17_Witness ==
  /\ dpc = "marked"
  /\ dom.n = 5
  /\ dom.parent = <<0, 1, 2, 3, 4>>
  /\ dom.tag = <<"html", "div", "div", "div", "pre">>
  /\ articleContent = {1, 2, 3, 4, 5}
  /\ readableScore = {1, 2, 3, 4, 5}

\* C40: marking is idempotent and bounded: an element carries the class at
\* most once however often it is marked (as the parent of a pre, as an
\* ancestor of several code blocks, by a second run of the pass), a marked
\* element is not changed by marking it again, a second run of the pass
\* leaves the marks of the first, and the upward walk from any element
\* visits the element and each of its ancestors once and ends at the root.
C40_MarkingIdempotent ==
  /\ [](\A i \in 1..dom.n :
          /\ classList[i] =
               (IF i \in articleContent THEN <<"article-content">> ELSE <<>>)
          /\ LET w == Visited(dom, i) IN
               /\ Len(w) = Cardinality(Ancestors(dom, i)) + 1
               /\ {w[k] : k \in 1..Len(w)} = {i} \cup Ancestors(dom, i)
               /\ w[Len(w)] = 1)
  /\ []((dpc = "marked" /\ firstPass.taken) =>
          /\ classList = firstPass.classes
          /\ readableScore = firstPass.scores)
  /\ [][\A i \in 1..dom.n :
          classList[i] /= <<>> => classList'[i] = classList[i]]_vars

\* Two pre elements under the same div: their shared ancestors were marked
\* for each of them, and the pass has run twice.
C40_Witness ==
  /\ dpc = "marked"
  /\ firstPass.taken
  /\ dom.n = 5
  /\ dom.parent = <<0, 1, 2, 3, 3>>
  /\ dom.tag = <<"html", "div", "div", "pre", "pre">>
  /\ classList = [i \in 1..MaxNodes |-> <<"article-content">>]
  /\ readableScore = {1, 2, 3, 4, 5}

\* ================================== SpecFiles: two scrapes in one process
\* visitWebPage and handlePageInteractions run for two tool calls at once:
\* what each call creates for itself, and what both reach through the
\* working directory of the process.

\* const browser = await puppeteerExtra.launch(...)
SLaunch(s) ==
  /\ spc[s] = "idle"
  /\ launched' = launched + 1
  /\ sbrowser' = [sbrowser EXCEPT ![s] = launched + 1]
  /\ spc' = [spc EXCEPT ![s] = "launched"]
  /\ UNCHANGED <<now, spage, sshots, sfilename, disk, besidesFiles>>

\* const page = await browser.newPage(), and the navigation
SNewPage(s) ==
  /\ spc[s] = "launched"
  /\ spage' = [spage EXCEPT ![s] = sbrowser[s]]
  /\ spc' = [spc EXCEPT ![s] = "page"]
  /\ UNCHANGED <<now, sbrowser, sshots, sfilename, launched, disk, besidesFiles>>

\* The file name: 'screenshot-interaction-' + the time of the call, to the
\* millisecond + '.png', in the working directory.
filename(time) == time

\* await page.screenshot(...) resolves; timestamp and filename are computed
\* and fs.promises.writeFile(filename, buffer) is called.
SScreenshot(s) ==
  /\ spc[s] = "page"
  /\ sshots[s] < MaxShots
  /\ sshots' = [sshots EXCEPT ![s] = @ + 1]
  /\ sfilename' = [sfilename EXCEPT ![s] = filename(now)]
  /\ spc' = [spc EXCEPT ![s] = "writeFile"]
  /\ UNCHANGED <<now, sbrowser, spage, launched, disk, besidesFiles>>

\* await fs.promises.writeFile(filename, buffer) resolves: the file holds the
\* screenshot of this scrape, whatever it held before.
SWriteFile(s) ==
  /\ spc[s] = "writeFile"
  /\ disk' = [disk EXCEPT ![sfilename[s]] = [owner |-> s, shot |-> sshots[s]]]
  /\ spc' = [spc EXCEPT ![s] = "analyze"]
  /\ UNCHANGED <<now, sbrowser, spage, sshots, sfilename, launched, besidesFiles>>

\* analyzePageWithAI and the action: another attempt, or the loop ends
SAnalyze(s) ==
  /\ spc[s] = "analyze"
  /\ \/ /\ sshots[s] < MaxShots
        /\ spc' = [spc EXCEPT ![s] = "page"]
     \/ spc' = [spc EXCEPT ![s] = "close"]
  /\ UNCHANGED <<now, sbrowser, spage, sshots, sfilename, launched, disk, besidesFiles>>

\* await browser.close()
SClose(s) ==
  /\ spc[s] = "close"
  /\ spc' = [spc EXCEPT ![s] = "done"]
  /\ UNCHANGED <<now, sbrowser, spage, sshots, sfilename, launched, disk, besidesFiles>>

\* a millisecond passes
Tick ==
  /\ now < MaxClock
  /\ now' = now + 1
  /\ UNCHANGED <<spc, sbrowser, spage, sshots, sfilename, launched, disk, besidesFiles>>

NextFiles ==
  \/ \E s \in Scrapes : SLaunch(s)
  \/ \E s \in Scrapes : SNewPage(s)
  \/ \E s \in Scrapes : SScreenshot(s)
  \/ \E s \in Scrapes : SWriteFile(s)
  \/ \E s \in Scrapes : SAnalyze(s)
  \/ \E s \in Scrapes : SClose(s)
  \/ Tick

SpecFiles == Init /\ [][NextFiles]_vars

\* Each scrape that has a browser and a page has its own.
OwnBrowserAndPage ==
  \A s, t \in Scrapes :
    s /= t =>
      /\ (sbrowser[s] /= 0 /\ sbrowser[t] /= 0) => sbrowser[s] /= sbrowser[t]
      /\ (spage[s] /= 0 /\ spage[t] /= 0) => spage[s] /= spage[t]

\* C18: two scrapes running at once share no mutable state: each has its own
\* browser and page, and no step changes a file (the screenshot files
\* included) that the other scrape wrote.
C18_NoInterference ==
  [][/\ OwnBrowserAndPage
     /\ \A t \in 0..MaxClock :
          disk[t] /= NoFile => disk'[t].owner = disk[t].owner]_vars

\* ================================= claims (the classifier and the executor)
Variants == {Some("click"), Some("type"), Some("scroll"), Some("wait"), Some("none")}

\* C21: executeAction never lets an error reach the interaction loop: the
\* step that runs it goes on to the settle delay or to the next attempt, and
\* when the page raised an error the result is false, the attempt is counted
\* and the loop goes on.
C21_ExecutorNeverRaises ==
  [][pc = "execute" =>
       /\ pc' \in {"settle", "loopTest"}
       /\ exc' = exc
       /\ pageError' /= "none" =>
            /\ actionSuccess' = "false"
            /\ pc' = "loopTest"
            /\ attempts' = attempts + 1]_vars

SelectorErrors == {"selectorTimeout", "clickFailed", "typeFailed"}
FrameErrors == {"frameQueryFailed", "elementClickFailed"}

\* The attempt that executeAction has just ended is marked failed: the flag
\* is as before, no settle delay is taken, the loop goes on to its next
\* test with one more attempt counted, and no exception is in flight.
AttemptFailed ==
  /\ actionSuccess' = "false"
  /\ interactionFound' = interactionFound
  /\ pc' = "loopTest"
  /\ attempts' = attempts + 1
  /\ exc' = exc

\* C22 as stated: an attempt that hits a recoverable error (selector not
\* found, click failed, frame query failed during a text click) is marked
\* failed, the loop continues and the error is not surfaced.
C22_RecoverableMarksFailed ==
  [][(pc = "execute"
        /\ pageError' \in {"selectorTimeout", "clickFailed", "frameQueryFailed"})
       => AttemptFailed]_vars

\* C22, amended: a selector that does not appear in time and a click or
\* type on the selector that fails mark the attempt failed (the flag is not
\* set, no settle delay), the loop continues and the error is not surfaced;
\* a frame query or an element click that fails during a text click is not
\* surfaced either and the loop continues, but that attempt counts as
\* successful: it sets the flag and takes the settle delay.
C22_RecoverableErrors ==
  [][pc = "execute" =>
       /\ pageError' \in SelectorErrors => AttemptFailed
       /\ pageError' \in FrameErrors =>
            /\ actionSuccess' = "true"
            /\ interactionFound'
            /\ pc' = "settle"
            /\ attempts' = attempts
            /\ exc' = exc]_vars

C22_Witness ==
  /\ pc = "loopTest"
  /\ pageError = "selectorTimeout"
  /\ actionSuccess = "false"
  /\ ~interactionFound
  /\ attempts = 1
  /\ exc = NoExc

\* C23: whatever the model answers, the classifier hands the loop an object
\* whose action is one of click, type, scroll, wait, none, and the loop does
\* not fail on it.
C23_WellFormedAction ==
  [][pc = "analyze" =>
       /\ pc' /= "catch"
       /\ action'.isObject
       /\ action'.action \in Variants]_vars

C25_PresentFieldReportsTrue ==
  [][(/\ pc = "execute"
      /\ \/ action.action = Some("scroll") /\ IsPresent(action.scrollAmount)
         \/ action.action = Some("wait") /\ IsPresent(action.waitTime))
       => actionSuccess' = "true"]_vars

\* The scrape under the condition that every call returns: a step that can
\* be taken is taken.
SpecLive == Spec /\ WF_vars(Next)

\* C26: the interaction loop terminates: every iteration that does not end
\* the loop adds one to attempts, the classifier is called at most
\* maxAttempts times, and a loop that is at its test ends (on none, at the
\* cap, or by an exception).
C26_LoopTerminates ==
  /\ [][(pc \in {"execute", "settle"} /\ pc' = "loopTest")
          => attempts' = attempts + 1]_vars
  /\ [](Started => classifications <= maxInteractionAttempts)
  /\ (pc = "loopTest" ~> loopEnd \in {"none", "cap", "threw"})

C26_Witness ==
  /\ loopEnd = "cap"
  /\ maxInteractionAttempts = 2
  /\ attempts = 2
  /\ classifications = 2
  /\ pc = "done"

\* C27: the settle delay is taken exactly after an executeAction that
\* reported success; after a failed one the loop goes straight to its next
\* test, and after the answer none it is left without a settle delay.
C27_SettleOnSuccessOnly ==
  [][/\ (pc' = "settle" /\ pc /= "settle")
          <=> (pc = "execute" /\ actionSuccess' = "true")
     /\ (pc = "execute" /\ actionSuccess' = "false") => pc' = "loopTest"
     /\ (pc = "analyze" /\ pc' /= "catch" /\ action'.action = Some("none"))
          => pc' = "evaluate"
     /\ pc = "settle" => pc' = "loopTest"]_vars

C27_Witness ==
  /\ pc = "settle"
  /\ actionSuccess = "true"
  /\ pageError = "none"
  /\ attempts = 1
  /\ interactionFound

\* C29: interactionFound starts false, becomes true exactly at an
\* executeAction that reported success and is never reset; the ends of the
\* loop (none, cap) leave it as accumulated.
C29_FlagAccumulates ==
  /\ ~interactionFound
  /\ [][interactionFound' =
          (interactionFound \/ (pc = "execute" /\ actionSuccess' = "true"))]_vars

C29_Witness ==
  /\ loopEnd = "none"
  /\ interactionFound
  /\ executions = 2
  /\ attempts = 2
  /\ pc = "done"

\* C30: for a click with a targetSelector and no targetText, executeAction
\* waits for the selector and clicks it; it reports true exactly when both
\* calls succeed, reports false on a timeout or a failed click, raises
\* nothing and does not start a text click.
C30_SelectorClick ==
  [][(/\ pc = "execute"
      /\ action.action = Some("click")
      /\ ~TruthyStr(action.targetText)
      /\ TruthyStr(action.targetSelector))
       => /\ pc' /= "catch"
          /\ exc' = exc
          /\ pageError' \in {"none", "selectorTimeout", "clickFailed"}
          /\ actionSuccess' = (IF pageError' = "none" THEN "true" ELSE "false")]_vars

C30_Witness ==
  /\ pc = "loopTest"
  /\ pageError = "clickFailed"
  /\ actionSuccess = "false"
  /\ ~interactionFound

\* C31: for a type action without a targetSelector or without an inputText
\* (absent or empty), executeAction reports false and makes no call on the
\* page; with both it waits for the selector and then types, reports true
\* exactly when both calls resolved, and reports false without raising when
\* the wait times out (nothing is typed then) or the typing fails.
C31_TypeAction ==
  [][(pc = "execute" /\ action.action = Some("type")) =>
       /\ pc' /= "catch"
       /\ exc' = exc
       /\ IF TruthyStr(action.targetSelector) /\ TruthyStr(action.inputText)
            THEN /\ pageOps' \in {<<"waitForSelector">>,
                                  <<"waitForSelector", "type">>}
                 /\ pageError' = "selectorTimeout" <=> pageOps' = <<"waitForSelector">>
                 /\ pageError' \in {"none", "selectorTimeout", "typeFailed"}
                 /\ actionSuccess' =
                      (IF pageError' = "none" THEN "true" ELSE "false")
            ELSE /\ pageOps' = <<>>
                 /\ pageError' = "none"
                 /\ actionSuccess' = "false"
                 /\ pc' = "loopTest"]_vars

C31_Witness ==
  /\ pc = "loopTest"
  /\ pageOps = <<"waitForSelector", "type">>
  /\ pageError = "typeFailed"
  /\ actionSuccess = "false"
  /\ exc = NoExc

\* The variants executeAction has a case for.
Recognized == {Some("click"), Some("type"), Some("scroll"), Some("wait")}

\* C32: for the action none and for every action executeAction has no case
\* for, it reports false and makes no call on the page; in the loop an
\* unrecognized variant takes one attempt, leaves the flag as it is, raises
\* nothing and does not end the loop.
C32_UnrecognizedIsNoOp ==
  /\ \A a \in ParsedValues, pg \in PageBehaviours :
       (a.isObject /\ a.action \notin Recognized) =>
         /\ executeAction(a, pg) = "false"
         /\ PageOps(a, pg) = <<>>
  /\ [][(pc = "execute" /\ action.action \notin Recognized) =>
          /\ actionSuccess' = "false"
          /\ pageOps' = <<>>
          /\ pageError' = "none"
          /\ attempts' = attempts + 1
          /\ interactionFound' = interactionFound
          /\ pc' = "loopTest"
          /\ loopEnd' = loopEnd
          /\ exc' = exc]_vars

C32_Witness ==
  /\ pc = "loopTest"
  /\ executedVariant = Some("hover")
  /\ actionSuccess = "false"
  /\ pageOps = <<>>
  /\ attempts = 1
  /\ ~interactionFound
  /\ loopEnd = "running"

\* =============================== SpecRequery: one frame, element by element
\* The body of one frame in clickElementsByText (lines 83-125), with the
\* elements of the frame told apart: $$eval gathers indexes, $$ lists the
\* elements again, and the indexes are applied to that second list.  The
\* page may change the frame in between.

\* The lists of distinct elements a frame can hold.
Listings ==
  UNION {{l \in [1..k -> Elements] : \A i, j \in 1..k : i /= j => l[i] /= l[j]}
           : k \in 0..MaxElements}

\* The list l with element el put in at position i.
InsertAt(l, i, el) == SubSeq(l, 1, i - 1) \o <<el>> \o SubSeq(l, i, Len(l))

\* The list l without the element at position i.
RemoveAt(l, i) == SubSeq(l, 1, i - 1) \o SubSeq(l, i + 1, Len(l))

\* elements.forEach((el, idx) => { if (el.textContent?.toLowerCase()
\* .includes(t)) matches.push(idx) })
MatchingIndexes(l, text) == {i \in 1..Len(l) : text[l[i]]}

\* const elementIndexes = await frame.$$eval('a, button', ...); no index:
\* return { found: false, count: 0 }
EScan ==
  /\ epc = "scan"
  /\ elementIndexes' = MatchingIndexes(fdoc, ftext)
  /\ scanned' = {fdoc[i] : i \in MatchingIndexes(fdoc, ftext)}
  /\ epc' = IF MatchingIndexes(fdoc, ftext) = {} THEN "done" ELSE "requery"
  /\ UNCHANGED <<fdoc, ftext, allElements, clickedElements, changes, besidesRequery>>

\* The page adds or removes an a or button element while the body of the
\* frame awaits.
DomChange ==
  /\ epc = "requery"
  /\ changes < MaxChanges
  /\ changes' = changes + 1
  /\ \/ \E i \in 1..Len(fdoc) : fdoc' = RemoveAt(fdoc, i)
     \/ \E i \in 1..(Len(fdoc) + 1),
           el \in Elements \ {fdoc[j] : j \in 1..Len(fdoc)} :
          fdoc' = InsertAt(fdoc, i, el)
  /\ UNCHANGED <<ftext, elementIndexes, allElements, scanned, clickedElements, epc,
                 besidesRequery>>

\* const allElements = await frame.$$('a, button')
ERequery ==
  /\ epc = "requery"
  /\ allElements' = fdoc
  /\ epc' = "click"
  /\ UNCHANGED <<fdoc, ftext, elementIndexes, scanned, clickedElements, changes,
                 besidesRequery>>

\* elementIndexes.map(async idx => { if (allElements[idx]) await
\* allElements[idx].click() }); return { found: true, count }
EClick ==
  /\ epc = "click"
  /\ clickedElements' = {allElements[i] :
                   i \in {j \in elementIndexes : j <= Len(allElements)}}
  /\ epc' = "done"
  /\ UNCHANGED <<fdoc, ftext, elementIndexes, allElements, scanned, changes,
                 besidesRequery>>

InitRequery ==
  /\ ScrapeIdle
  /\ ClickIdle
  /\ RenderIdle
  /\ DomIdle
  /\ FilesIdle
  /\ LaterIdle
  /\ fdoc \in Listings
  /\ ftext \in [Elements -> BOOLEAN]
  /\ elementIndexes = {}
  /\ allElements = <<>>
  /\ scanned = {}
  /\ clickedElements = {}
  /\ epc = "scan"
  /\ changes = 0

NextRequery ==
  \/ EScan
  \/ DomChange
  \/ ERequery
  \/ EClick

SpecRequery == InitRequery /\ [][NextRequery]_vars

\* C28: every element of a frame that click() is called on is an element
\* whose text matched the search text when the frame was scanned, also when
\* the frame changes between the scan and the clicks.
C28_ClickedWereMatched ==
  epc = "done" =>
    /\ clickedElements \subseteq scanned
    /\ \A el \in clickedElements : ftext[el]

\* ================================================ SpecSanitize: sanitizeHtml
\* sanitizeHtml(article.content, {allowedTags, allowedAttributes}) on one
\* element, with the defaults of sanitize-html for what the call leaves
\* unsaid: a tag that is not allowed is discarded, an href whose scheme is not
\* allowed is dropped.

\* allowedTags
allowedTags ==
  {"h1", "h2", "h3", "h4", "h5", "h6", "p", "a", "ul", "ol", "li", "b", "i",
   "strong", "em", "code", "pre", "div", "span", "table", "thead", "tbody",
   "tr", "th", "td"}

\* Tags a page can hold that are not in the list.
OtherTags == {"script", "style", "img", "iframe"}

AttrNames == {"href", "class", "data-language", "onclick", "style", "id"}

Schemes == {"https", "javascript"}

\* The default allowedSchemes of sanitize-html.
allowedSchemes == {"http", "https", "ftp", "mailto", "tel"}

SanitizeInputs ==
  [tag : allowedTags \cup OtherTags, attrs : SUBSET AttrNames, scheme : Schemes]

allowedAttributesMut(tag) == AttrNames

\* allowedAttributes: { a: [href], pre: [class, data-language],
\* code: [class, data-language], div: [class], span: [class] }
allowedAttributes(tag) ==
  CASE tag = "a" -> {"href"}
    [] tag \in {"pre", "code"} -> {"class", "data-language"}
    [] tag \in {"div", "span"} -> {"class"}
    [] OTHER -> {}

sanitizeHtml(el) ==
  IF el.tag \in allowedTags
    THEN [done |-> TRUE, kept |-> TRUE, tag |-> el.tag,
          attrs |-> {a \in el.attrs \cap allowedAttributes(el.tag) :
                       a = "href" => el.scheme \in allowedSchemes}]
    ELSE [done |-> TRUE, kept |-> FALSE, tag |-> el.tag, attrs |-> {}]

\* const cleanHtml = sanitizeHtml(article.content, {...})
Sanitize ==
  /\ ~sanOut.done
  /\ sanOut' = sanitizeHtml(sanIn)
  /\ UNCHANGED <<sanIn, besidesSanitize>>

InitSanitize ==
  /\ ScrapeIdle
  /\ ClickIdle
  /\ RenderIdle
  /\ DomIdle
  /\ FilesIdle
  /\ RequeryIdle
  /\ HttpIdle
  /\ SseIdle
  /\ sanIn \in SanitizeInputs
  /\ sanOut = NoElement

NextSanitize == Sanitize

SpecSanitize == InitSanitize /\ [][NextSanitize]_vars

\* The tag of the element is removed exactly when it is outside the list,
\* and nothing is added to the attributes of a kept element.
TagsFiltered ==
  /\ sanOut.kept <=> sanIn.tag \in allowedTags
  /\ sanOut.attrs \subseteq sanIn.attrs
  /\ ~sanOut.kept => sanOut.attrs = {}

\* C34 as stated: after sanitization the only attributes left are href on
\* anchors and class and data-language on pre and code; every tag outside
\* the list is removed.
C34_OnlyCodeAndAnchorAttributes ==
  sanOut.done =>
    /\ TagsFiltered
    /\ \A a \in sanOut.attrs :
         \/ a = "href" /\ sanOut.tag = "a"
         \/ a \in {"class", "data-language"} /\ sanOut.tag \in {"pre", "code"}

\* C34, amended: the attributes left after sanitization are href on anchors,
\* class and data-language on pre and code, and class on div and span; every
\* other attribute is stripped from every allowed tag, and every tag outside
\* the list is removed.
C34_SurvivingAttributes ==
  sanOut.done =>
    /\ TagsFiltered
    /\ \A a \in sanOut.attrs :
         \/ a = "href" /\ sanOut.tag = "a"
         \/ a \in {"class", "data-language"} /\ sanOut.tag \in {"pre", "code"}
         \/ a = "class" /\ sanOut.tag \in {"div", "span"}
    /\ (sanIn.tag \in {"div", "span"} /\ "class" \in sanIn.attrs)
         => "class" \in sanOut.attrs

C34_Witness ==
  /\ sanOut.done
  /\ sanIn.tag = "div"
  /\ sanIn.attrs = {"class", "onclick", "style"}
  /\ sanOut.kept
  /\ sanOut.attrs = {"class"}

\* ================================================ SpecHttp: the HTTP transport
\* setupHTTPTransport: the handlers of POST, GET and DELETE on /mcp and the
\* SIGINT handler, each taken from await to await, with two clients sending
\* requests at the same time.  What transport.handleRequest and
\* transport.close do is the SDK's: a first POST that is an initialize request
\* gives the transport its session id and calls onsessioninitialized, a
\* DELETE closes the transport, and close() calls onclose.  A header value of
\* 0 stands for the empty string.

Methods == {"POST", "GET", "DELETE"}

SessionHeaders == {Absent, Some(0)} \cup {Some(s) : s \in SessionIds}

\* if (sessionId ...): the header is there and is not the empty string.
CarriesSession(h) == IsPresent(h) /\ Get(h) /= 0

HasSessionMut(h) == CarriesSession(h)

\* sessionId && transports.has(sessionId)
HasSession(h) == CarriesSession(h) /\ httpTransports[Get(h)] /= 0

\* onsessioninitialized: transports.set(sessionId, transport)
onsessioninitialized(sessionId, transport) ==
  [httpTransports EXCEPT ![sessionId] = transport]

\* transport.onclose: if (sid && transports.has(sid)) transports.delete(sid)
onclose(sid) ==
  IF httpTransports[sid] /= 0
    THEN [map |-> [httpTransports EXCEPT ![sid] = 0],
          removals |-> [removals EXCEPT ![sid] = @ + 1]]
    ELSE [map |-> httpTransports, removals |-> removals]

\* A client sends a request on /mcp.
Arrive(c) ==
  /\ shutdown.phase /= "exited"
  /\ httpRequests[c].pc \in {"idle", "done"}
  /\ \E m \in Methods, h \in SessionHeaders :
       httpRequests' = [httpRequests EXCEPT ![c] =
                          [NoHttpRequest EXCEPT !.pc = "arrived", !.method = m,
                                                !.header = h]]
  /\ UNCHANGED <<httpTransports, transportState, transportsCreated, shutdown,
                 removals, besidesHttp>>

\* The handler has answered the request itself.
Answered(c, st) ==
  httpRequests' = [httpRequests EXCEPT ![c] =
                     [NoHttpRequest EXCEPT !.pc = "done",
                                           !.method = httpRequests[c].method,
                                           !.status = st]]

\* The handler holds transport t and is at its await `at`.
Bound(c, t, at) ==
  httpRequests' = [httpRequests EXCEPT ![c] =
                     [NoHttpRequest EXCEPT !.pc = at,
                                           !.method = httpRequests[c].method,
                                           !.transport = t]]

\* res.status(400).json({... 'Bad Request: No valid session ID provided'})
BadRequest == 400

\* res.status(500).json({... 'Internal server error'})
InternalError == 500

\* app.post('/mcp', ...) up to its first await.
HPost(c) ==
  /\ shutdown.phase /= "exited"
  /\ httpRequests[c].pc = "arrived"
  /\ httpRequests[c].method = "POST"
  /\ LET h == httpRequests[c].header IN
       IF HasSession(h)
         THEN /\ Bound(c, httpTransports[Get(h)], "handle")
              /\ UNCHANGED <<transportState, transportsCreated>>
         ELSE IF ~CarriesSession(h)
           THEN /\ transportsCreated < MaxSessions
                /\ transportsCreated' = transportsCreated + 1
                /\ transportState' =
                     [transportState EXCEPT ![transportsCreated + 1] = "connecting"]
                /\ Bound(c, transportsCreated + 1, "connect")
           ELSE /\ Answered(c, BadRequest)
                /\ UNCHANGED <<transportState, transportsCreated>>
  /\ UNCHANGED <<httpTransports, shutdown, removals, besidesHttp>>

\* The test both app.get('/mcp') and app.delete('/mcp') start with.
WithSession(c, m) ==
  /\ httpRequests[c].pc = "arrived"
  /\ httpRequests[c].method = m
  /\ LET h == httpRequests[c].header IN
       IF ~HasSession(h)
         THEN Answered(c, BadRequest)
         ELSE Bound(c, httpTransports[Get(h)], "handle")
  /\ UNCHANGED <<httpTransports, transportState, transportsCreated, shutdown,
                 removals, besidesHttp>>

\* app.get('/mcp', ...) up to its await.
HGet(c) ==
  /\ shutdown.phase /= "exited"
  /\ WithSession(c, "GET")

\* app.delete('/mcp', ...) up to its await.
HDelete(c) ==
  /\ shutdown.phase /= "exited"
  /\ WithSession(c, "DELETE")

\* await server.connect(transport): it resolves, or it rejects and the catch
\* of the POST handler answers 500.
HConnect(c) ==
  /\ shutdown.phase /= "exited"
  /\ httpRequests[c].pc = "connect"
  /\ \/ /\ transportState' =
             [transportState EXCEPT ![httpRequests[c].transport] = "connected"]
        /\ httpRequests' = [httpRequests EXCEPT ![c].pc = "handle"]
     \/ /\ httpRequests' =
             [httpRequests EXCEPT ![c].pc = "done", ![c].status = InternalError]
        /\ UNCHANGED transportState
  /\ UNCHANGED <<httpTransports, transportsCreated, shutdown, removals,
                 besidesHttp>>

\* What a handler answers when handleRequest rejects: POST and DELETE catch
\* and answer 500, GET has no catch and sends no answer.
OnReject(m) == IF m = "GET" THEN 0 ELSE InternalError

\* await transport.handleRequest(req, res)
HHandle(c) ==
  LET r == httpRequests[c]
      t == r.transport
      done(st) == httpRequests' =
                    [httpRequests EXCEPT ![c].pc = "done", ![c].status = st]
  IN
  /\ shutdown.phase /= "exited"
  /\ r.pc = "handle"
  /\ t /= 0
  /\ \/ /\ done(OnReject(r.method))
        /\ UNCHANGED <<httpTransports, transportState, removals>>
     \/ /\ transportState[t] = "connected"
        /\ \/ /\ transportState' = [transportState EXCEPT ![t] = "initialized"]
              /\ httpTransports' = onsessioninitialized(t, t)
              /\ done(200)
           \/ /\ done(BadRequest)
              /\ UNCHANGED <<httpTransports, transportState>>
        /\ UNCHANGED removals
     \/ /\ transportState[t] \in {"initialized", "closed"}
        /\ IF r.method = "DELETE"
             THEN /\ transportState' = [transportState EXCEPT ![t] = "closed"]
                  /\ httpTransports' = onclose(t).map
                  /\ removals' = onclose(t).removals
             ELSE UNCHANGED <<httpTransports, transportState, removals>>
        /\ done(200)
  /\ UNCHANGED <<transportsCreated, shutdown, besidesHttp>>

\* process.on('SIGINT', ...): the loop over the map starts.
SigInt ==
  /\ shutdown.phase = "running"
  /\ shutdown' = [shutdown EXCEPT !.phase = "closing"]
  /\ UNCHANGED <<httpTransports, transportState, transportsCreated,
                 httpRequests, removals, besidesHttp>>

\* The entries the loop of the SIGINT handler still has to visit.
ToVisit == {s \in SessionIds : httpTransports[s] /= 0 /\ s \notin shutdown.visited}

\* One turn of the loop: await transport.close() resolves after calling
\* onclose and transports.delete(sessionId) follows, or close() rejects and
\* the catch logs.
ShutdownClose ==
  /\ shutdown.phase = "closing"
  /\ \E s \in ToVisit :
       /\ \/ /\ transportState' =
                  [transportState EXCEPT ![httpTransports[s]] = "closed"]
             /\ httpTransports' = [onclose(s).map EXCEPT ![s] = 0]
             /\ removals' = onclose(s).removals
          \/ UNCHANGED <<httpTransports, transportState, removals>>
       /\ shutdown' = [shutdown EXCEPT !.visited = @ \cup {s}]
  /\ UNCHANGED <<transportsCreated, httpRequests, besidesHttp>>

\* The loop is over: process.exit(0).
ShutdownExit ==
  /\ shutdown.phase = "closing"
  /\ ToVisit = {}
  /\ shutdown' = [shutdown EXCEPT !.phase = "exited"]
  /\ UNCHANGED <<httpTransports, transportState, transportsCreated,
                 httpRequests, removals, besidesHttp>>

NextHttp ==
  \/ \E c \in Clients : Arrive(c)
  \/ \E c \in Clients : HPost(c)
  \/ \E c \in Clients : HGet(c)
  \/ \E c \in Clients : HDelete(c)
  \/ \E c \in Clients : HConnect(c)
  \/ \E c \in Clients : HHandle(c)
  \/ SigInt
  \/ ShutdownClose
  \/ ShutdownExit

SpecHttp == Init /\ [][NextHttp]_vars

\* Client c's handler has just taken its request.
Received(c) ==
  /\ httpRequests[c].pc = "arrived"
  /\ httpRequests'[c].pc /= "arrived"

\* C36: a request on /mcp that carries a session id is handed to a transport
\* exactly when that session has been initialized and has not been closed,
\* and then to the transport of that session; otherwise it is answered 400,
\* no transport is created and the map is unchanged.  A transport is created
\* only by a POST without a session id; the map holds exactly the transports
\* that are initialized and not closed, each under its own session id; and
\* every closed session was removed from the map once, whoever closed it and
\* however often.
C36_HttpSessions ==
  /\ [](\A s \in SessionIds :
          /\ httpTransports[s] \in {0, s}
          /\ httpTransports[s] /= 0 <=> transportState[s] = "initialized"
          /\ removals[s] = (IF transportState[s] = "closed" THEN 1 ELSE 0))
  /\ [][/\ \A c \in Clients :
            (Received(c) /\ CarriesSession(httpRequests[c].header)) =>
              IF transportState[Get(httpRequests[c].header)] = "initialized"
                THEN /\ httpRequests'[c].pc = "handle"
                     /\ httpRequests'[c].transport = Get(httpRequests[c].header)
                     /\ httpTransports' = httpTransports
                ELSE /\ httpRequests'[c].pc = "done"
                     /\ httpRequests'[c].status = BadRequest
                     /\ httpRequests'[c].transport = 0
                     /\ httpTransports' = httpTransports
                     /\ transportsCreated' = transportsCreated
                     /\ transportState' = transportState
        /\ transportsCreated' /= transportsCreated =>
             \E c \in Clients :
               /\ Received(c)
               /\ httpRequests[c].method = "POST"
               /\ ~CarriesSession(httpRequests[c].header)
               /\ httpTransports' = httpTransports]_vars

\* Two DELETE requests for session 1 were in flight together and the SIGINT
\* handler closed the session as well: one removal, no error answered.
C36_Witness ==
  /\ \A c \in Clients :
       /\ httpRequests[c].pc = "done"
       /\ httpRequests[c].method = "DELETE"
       /\ httpRequests[c].status = 200
  /\ shutdown.phase = "exited"
  /\ 1 \in shutdown.visited
  /\ transportState[1] = "closed"
  /\ removals[1] = 1

\* ================================================== SpecSse: the SSE transport
\* setupSSETransport: transports is a plain object ({}), so reading
\* transports[sessionId] finds the own keys, which are the session ids of the
\* transports stored, and whatever Object.prototype holds under that name.
\* The n-th connection opened gets session id n (randomUUID never repeats).
\* A sessionId of a POST is a session id (name "uuid", n its number), one of
\* the inherited names (n = 0), or missing (name "undefined").

ConnectionIds == 1..MaxConnections

PostedIds ==
  {[name |-> "uuid", n |-> i] : i \in ConnectionIds}
  \cup {[name |-> k, n |-> 0] : k \in InheritedKeys \cup {"undefined"}}

\* const transport = transports[sessionId]
Lookup(key) ==
  IF key.name = "uuid"
    THEN IF key.n \in sseTransports THEN "transport" ELSE "undefined"
    ELSE IF key.name \in InheritedKeys THEN "inherited" ELSE "undefined"

\* if (transport) { await transport.handlePostMessage(req, res) } else
\* { res.status(400).send(...) }: a value that is no transport has no
\* handlePostMessage, and calling it throws a TypeError out of the handler.
handlePost(key) ==
  CASE Lookup(key) = "transport" -> "delivered"
    [] Lookup(key) = "inherited" -> "threw"
    [] OTHER -> "400"

\* app.get("/sse", ...): a transport is made for the connection, stored under
\* its session id, and the close handler is registered.
SseConnect ==
  /\ sseOpened < MaxConnections
  /\ sseOpened' = sseOpened + 1
  /\ sseTransports' = sseTransports \cup {sseOpened + 1}
  /\ sseOpen' = sseOpen \cup {sseOpened + 1}
  /\ UNCHANGED <<lastPost, besidesSse>>

\* res.on("close", () => { delete transports[transport.sessionId] })
SseClose ==
  /\ \E id \in sseOpen :
       /\ sseOpen' = sseOpen \ {id}
       /\ sseTransports' = sseTransports \ {id}
  /\ UNCHANGED <<sseOpened, lastPost, besidesSse>>

\* app.post("/messages", ...)
SsePost ==
  /\ \E key \in PostedIds :
       lastPost' = [sessionId |-> key, outcome |-> handlePost(key)]
  /\ UNCHANGED <<sseTransports, sseOpen, sseOpened, besidesSse>>

NextSse ==
  \/ SseConnect
  \/ SseClose
  \/ SsePost

SpecSse == Init /\ [][NextSse]_vars

\* C37: a POST /messages is delivered to a transport exactly when its
\* sessionId names an SSE connection that was opened and has not closed, and
\* is answered 400 otherwise; the map holds exactly the open sessions.
C37_SseSessions ==
  /\ [](sseTransports = sseOpen)
  /\ [][lastPost' /= lastPost =>
          lastPost'.outcome =
            (IF /\ lastPost'.sessionId.name = "uuid"
                /\ lastPost'.sessionId.n \in sseOpen
               THEN "delivered" ELSE "400")]_vars

====
